---- MODULE Spec2Model ----
(***************************************************************************)
(* Verification model of AI4VisualNovel:                                   *)
(*   - the story graph (agents/story_graph.py) and the long-term-memory    *)
(*     builder of the generation workflow (workflow.py);                   *)
(*   - the playback engine (game_engine/scenes.py, manager.py, state.py);  *)
(*   - the story file written by the workflow and the parser that reads it *)
(*     back (game_engine/data.py).                                         *)
(* Node ids are modelled as naturals; RootId stands for the id 'root'.     *)
(***************************************************************************)
EXTENDS Integers, Sequences, FiniteSets, TLC

\* ------------------------------------------------------------------------
\* Bounds of the model
\* ------------------------------------------------------------------------
MaxNodeId == 3
MaxEdges == 4
MaxCondLen == 6
MaxNavLen == 4
MaxChoices == 2

\* 'root' (story_graph.py:119)
RootId == 0

\* an edge whose choice_text is null
NoChoiceText == "none"

NodeIds == 0..MaxNodeId

VARIABLES
  nodes,            \* StoryGraph.nodes: node ids in dict order
  edges,            \* StoryGraph.edges: sequence of [from, to]
  has_actors,       \* WorkflowController.actors is non-empty
  gpc,              \* position of _generate_full_story
  node_order,       \* local node_order of _generate_full_story
  gidx,             \* loop index into node_order (1-based)
  sorted_nodes,     \* local sorted_nodes of validate (line 114)
  node_summaries,   \* keys of the local dict node_summaries
  long_term_memory, \* local long_term_memory of the node being generated
  story_text,       \* data/story.txt as its sequence of lines
  writer_formats,   \* the script formats the writer model answers in
  loaded_text,      \* GameManager.story_text: the file as the game read it
  parsed_story,     \* GameManager.parsed_story: group -> block -> scenes
  game_state,       \* GameManager.game_state
  current_scene,    \* GameManager.current_scene
  status,           \* "ok", or the exception that ended the program
  runs,             \* the load_line runs of the last handler
  navs,             \* the jump/choice targets taken by the last handler
  play_log,         \* whether a story was started and the texts shown since
  game_design,      \* WorkflowController.game_design: the story_graph document
  script_text,      \* the text a caller hands to StoryParser
  parse_calls,      \* the StoryParser calls made so far, with what they returned
  parser_locals,    \* the locals of the last parse_story call when it returned
  savegame,         \* data/savegame.json, and what the last load_game left
  llm               \* LLMClient and the chat_completion call in progress

gvars == <<nodes, edges, has_actors, gpc, node_order, gidx, sorted_nodes,
           node_summaries, long_term_memory, story_text, writer_formats>>

pvars == <<loaded_text, parsed_story, game_state, current_scene, status, runs, navs,
           play_log>>

xvars ==
  <<game_design, script_text, parse_calls, parser_locals, savegame, llm>>

vars == <<gvars, pvars, xvars>>

\* ------------------------------------------------------------------------
\* Generic helpers
\* ------------------------------------------------------------------------
Range(s) == {s[i] : i \in DOMAIN s}

SeqsUpTo(A, n) == UNION {[1..k -> A] : k \in 0..n}

Min(S) == CHOOSE x \in S : \A y \in S : x <= y

RECURSIVE SortedSeq(_)
\* sorted(S) for a set of naturals
SortedSeq(S) ==
  IF S = {} THEN <<>> ELSE <<Min(S)>> \o SortedSeq(S \ {Min(S)})

RECURSIVE SubsetsUpTo(_, _)
\* all subsets of S with at most k elements
SubsetsUpTo(S, k) ==
  IF k = 0 THEN {{}}
  ELSE LET P == SubsetsUpTo(S, k - 1)
       IN  P \cup {p \cup {x} : p \in P, x \in S}

EdgeKey(e) == e.from * (MaxNodeId + 1) + e.to

RECURSIVE EdgeSeq(_)
\* the edge list of a document: edges in (from, to) order
EdgeSeq(E) ==
  IF E = {} THEN <<>>
  ELSE LET m == CHOOSE e \in E : \A f \in E : EdgeKey(e) <= EdgeKey(f)
       IN  <<m>> \o EdgeSeq(E \ {m})

\* ------------------------------------------------------------------------
\* StoryGraph (agents/story_graph.py)
\* ------------------------------------------------------------------------
NodeSet == Range(nodes)

RECURSIVE ChildrenOf(_, _)
ChildrenOf(es, n) ==
  IF es = <<>> THEN <<>>
  ELSE (IF Head(es).from = n THEN <<Head(es).to>> ELSE <<>>)
       \o ChildrenOf(Tail(es), n)

RECURSIVE ParentsOf(_, _)
ParentsOf(es, n) ==
  IF es = <<>> THEN <<>>
  ELSE (IF Head(es).to = n THEN <<Head(es).from>> ELSE <<>>)
       \o ParentsOf(Tail(es), n)

\* adjacency.get(node_id, []) with the choice text dropped
get_children(n) == ChildrenOf(edges, n)

\* reverse_adjacency.get(node_id, [])
get_parents(n) == ParentsOf(edges, n)

\* variant: the node's 'type' field decides
is_merge_point_by_type(n) == game_design.node_type = "merge"

is_merge_point(n) == Len(get_parents(n)) > 1

\* the locals visited and endings of get_reachable_endings before dfs runs
NoVisits == [visited |-> {}, endings |-> <<>>]

RECURSIVE dfs_per_path(_, _)
RECURSIVE DfsChildrenPerPath(_, _, _)
\* variant: a node counts as visited only while the search is below it
DfsChildrenPerPath(children, k, st) ==
  IF k > Len(children) THEN st
  ELSE DfsChildrenPerPath(children, k + 1, dfs_per_path(children[k], st))

dfs_per_path(node_id, st) ==
  IF node_id \in st.visited THEN st
  ELSE LET st1 == [st EXCEPT !.visited = @ \cup {node_id}]
           children == get_children(node_id)
       IN  IF children = <<>>
           THEN [st EXCEPT !.endings = Append(@, node_id)]
           ELSE [DfsChildrenPerPath(children, 1, st1)
                   EXCEPT !.visited = st.visited]

RECURSIVE dfs(_, _)
RECURSIVE DfsChildren(_, _, _)
\* the for loop of dfs over the children of a node, from the k-th on
DfsChildren(children, k, st) ==
  IF k > Len(children) THEN st
  ELSE DfsChildren(children, k + 1, dfs(children[k], st))

\* the inner function dfs of get_reachable_endings
dfs(node_id, st) ==
  IF node_id \in st.visited THEN st
  ELSE LET st1 == [st EXCEPT !.visited = @ \cup {node_id}]
           children == get_children(node_id)
       IN  IF children = <<>>
           THEN [st1 EXCEPT !.endings = Append(@, node_id)]
           ELSE DfsChildren(children, 1, st1)

get_reachable_endings(from_node) == dfs(from_node, NoVisits).endings

RECURSIVE TopoChildrenEager(_, _, _)
\* variant: a child is enqueued as soon as one of its parents was emitted
TopoChildrenEager(in_degree, queue, ch) ==
  IF ch = <<>> THEN [in_degree |-> in_degree, queue |-> queue]
  ELSE LET c == Head(ch)
           d == [in_degree EXCEPT ![c] = 0]
       IN  TopoChildrenEager(d, IF in_degree[c] > 0 THEN Append(queue, c)
                                ELSE queue, Tail(ch))

RECURSIVE TopoChildren(_, _, _)
\* the for loop of topological_sort over the children of the dequeued node
TopoChildren(in_degree, queue, ch) ==
  IF ch = <<>> THEN [in_degree |-> in_degree, queue |-> queue]
  ELSE LET c == Head(ch)
           d == [in_degree EXCEPT ![c] = @ - 1]
       IN  TopoChildren(d, IF d[c] = 0 THEN Append(queue, c) ELSE queue,
                        Tail(ch))

RECURSIVE TopoLoop(_, _, _)
\* the while loop of topological_sort
TopoLoop(in_degree, queue, result) ==
  IF queue = <<>> THEN result
  ELSE LET node_id == Head(queue)
           r == TopoChildren(in_degree, Tail(queue), get_children(node_id))
       IN  TopoLoop(r.in_degree, r.queue, Append(result, node_id))

\* variant: the emitted nodes are returned without the length check
topological_sort_unchecked ==
  LET in_degree == [n \in NodeSet |-> Len(get_parents(n))]
      queue == SelectSeq(nodes, LAMBDA n : in_degree[n] = 0)
  IN  TopoLoop(in_degree, queue, <<>>)

topological_sort ==
  LET in_degree == [n \in NodeSet |-> Len(get_parents(n))]
      queue == SelectSeq(nodes, LAMBDA n : in_degree[n] = 0)
      result == TopoLoop(in_degree, queue, <<>>)
  IN  IF Len(result) # Len(nodes) THEN <<>> ELSE result

\* validate(): <<is_valid, reason>>
validate ==
  IF \E i \in DOMAIN edges : edges[i].from \notin NodeSet
                             \/ edges[i].to \notin NodeSet
  THEN <<FALSE, "missing_node">>
  ELSE IF topological_sort = <<>> THEN <<FALSE, "cycle">>
  ELSE IF RootId \notin NodeSet THEN <<FALSE, "no_root">>
  ELSE <<TRUE, "ok">>

\* ------------------------------------------------------------------------
\* Long-term memory (workflow.py)
\* ------------------------------------------------------------------------
RECURSIVE AncestorLoop(_, _)
\* the BFS loop shared by _get_ancestors and the non-merge branch
AncestorLoop(ancestors, queue) ==
  IF queue = <<>> THEN ancestors
  ELSE LET current == Head(queue)
       IN  IF current \notin ancestors
           THEN AncestorLoop(ancestors \cup {current},
                             Tail(queue) \o get_parents(current))
           ELSE AncestorLoop(ancestors, Tail(queue))

\* variant: the BFS starts from the parents of the node, not the node itself
_get_ancestors_exclusive(node_id) == AncestorLoop({}, get_parents(node_id))

_get_ancestors(node_id) == AncestorLoop({}, <<node_id>>)

RECURSIVE Intersection(_)
\* set.intersection(*ancestor_sets) for a non-empty sequence of sets
Intersection(sets) ==
  IF Len(sets) = 1 THEN sets[1]
  ELSE sets[1] \cap Intersection(Tail(sets))

\* "\n".join of the "Node <id>: <summary>" lines, as the list of their ids
ContextParts(ancestors, summaries) ==
  SelectSeq(SortedSeq(ancestors), LAMBDA a : a \in summaries)

\* variant: the merge branch joins the lines without a fallback text
_build_long_term_memory_joined(node_id, summaries) ==
  LET parents == get_parents(node_id)
  IN  IF Len(parents) > 1
      THEN LET ancestor_sets == [i \in DOMAIN parents |->
                                   _get_ancestors(parents[i])]
               common_ancestors == Intersection(ancestor_sets)
               context_parts == ContextParts(common_ancestors, summaries)
           IN  [kind |-> "summaries", parts |-> context_parts]
      ELSE LET ancestors == AncestorLoop({}, parents)
               context_parts == ContextParts(ancestors, summaries)
           IN  IF context_parts # <<>>
               THEN [kind |-> "summaries", parts |-> context_parts]
               ELSE [kind |-> "game_start", parts |-> <<>>]

_build_long_term_memory(node_id, summaries) ==
  LET parents == get_parents(node_id)
  IN  IF Len(parents) > 1
      THEN LET ancestor_sets == [i \in DOMAIN parents |->
                                   _get_ancestors(parents[i])]
               common_ancestors == Intersection(ancestor_sets)
               context_parts == ContextParts(common_ancestors, summaries)
           IN  IF context_parts # <<>>
               THEN [kind |-> "summaries", parts |-> context_parts]
               ELSE [kind |-> "merge_start", parts |-> <<>>]
      ELSE LET ancestors == AncestorLoop({}, parents)
               context_parts == ContextParts(ancestors, summaries)
           IN  IF context_parts # <<>>
               THEN [kind |-> "summaries", parts |-> context_parts]
               ELSE [kind |-> "game_start", parts |-> <<>>]

NoMemory == [kind |-> "none", parts |-> <<>>]

\* ------------------------------------------------------------------------
\* Script instructions (the dicts handed to DialogueScene)
\* ------------------------------------------------------------------------
\* choice.get("target") / line.get("target") is None
NoTarget == 0

\* choice.get("effect", "") is empty
NoEffect == "none"

\* full_text before any line was loaded
NoText == "none"

Ins(t) == [type |-> t, role |-> "none", level |-> 0, target |-> NoTarget,
           effect |-> NoEffect, text |-> NoText, speaker |-> "none",
           value |-> "none", index |-> 0]

IfIns(r, l) == [Ins("if") EXCEPT !.role = r, !.level = l]
ElseIns == Ins("else")
EndIfIns == Ins("endif")
Narrator(x) == [Ins("narrator") EXCEPT !.text = x]
JumpIns(t) == [Ins("jump") EXCEPT !.target = t]
ChoiceStart == Ins("choice_start")
ChoiceOption(t, e) == [Ins("choice_option") EXCEPT !.target = t, !.effect = e]
Dialogue(who, x) == [Ins("dialogue") EXCEPT !.speaker = who, !.text = x]
ImageIns(v) == [Ins("image") EXCEPT !.value = v]
Background(v) == [Ins("background") EXCEPT !.value = v]
SoundIns(v) == [Ins("sound") EXCEPT !.value = v]

\* block_data["scene_<n>"] = lines, as an entry of the ordered dict
Scene(n, lines) == [key |-> n, lines |-> lines]

\* ------------------------------------------------------------------------
\* GameState (game_engine/state.py)
\* ------------------------------------------------------------------------
level_thresholds == <<0, 20, 40, 60, 80, 100>>

\* GameState.advance_time wraps the block after this value
BlocksPerGroup == 7

\* characters loaded from character_info.json: one above, one below level 1
InitialCharacters ==
  [c \in {"hi", "lo"} |->
     IF c = "hi" THEN [affection |-> 40, level |-> 2]
     ELSE [affection |-> 0, level |-> 0]]

\* GameState.__init__; current_node_id is only created by a jump or choice
NewGameState ==
  [group |-> 1, block |-> 1, characters |-> InitialCharacters,
   pending_relationship_stories |-> <<>>, choices_made |-> <<>>,
   current_node_id |-> NoTarget]

advance_time(gs) ==
  IF gs.block + 1 > BlocksPerGroup
  THEN [gs EXCEPT !.block = 1, !.group = @ + 1]
  ELSE [gs EXCEPT !.block = @ + 1]

\* the level computed by the threshold loop of update_affection
LevelOf(affection) ==
  CHOOSE i \in 0..5 :
    /\ affection >= level_thresholds[i + 1]
    /\ \A j \in (i + 1)..5 : affection < level_thresholds[j + 1]

\* variant: a level-up enqueues the story of the level reached only
update_affection_top_level(gs, character_name, value) ==
  IF character_name \in DOMAIN gs.characters
  THEN LET char == gs.characters[character_name]
           sum == char.affection + value
           new_affection == IF sum > 100 THEN 100 ELSE IF sum < 0 THEN 0 ELSE sum
           current_level == char.level
           new_level == LevelOf(new_affection)
       IN  IF new_level > current_level
           THEN [gs EXCEPT
                  !.characters[character_name] =
                     [affection |-> new_affection, level |-> new_level],
                  !.pending_relationship_stories =
                     Append(@, <<character_name, new_level>>)]
           ELSE [gs EXCEPT !.characters[character_name].affection =
                              new_affection]
  ELSE gs

update_affection(gs, character_name, value) ==
  IF character_name \in DOMAIN gs.characters
  THEN LET char == gs.characters[character_name]
           sum == char.affection + value
           new_affection == IF sum > 100 THEN 100 ELSE IF sum < 0 THEN 0 ELSE sum
           current_level == char.level
           new_level == LevelOf(new_affection)
       IN  IF new_level > current_level
           THEN [gs EXCEPT
                  !.characters[character_name] =
                     [affection |-> new_affection, level |-> new_level],
                  !.pending_relationship_stories =
                     @ \o [k \in 1..(new_level - current_level) |->
                             <<character_name, current_level + k>>]]
           ELSE [gs EXCEPT !.characters[character_name].affection =
                              new_affection]
  ELSE gs

\* _apply_choice_effect: the effect texts "<name>好感度+<n>" of the model
_apply_choice_effect(gs, effect) ==
  IF effect = "lo+20" THEN update_affection(gs, "lo", 20)
  ELSE IF effect = "hi+20" THEN update_affection(gs, "hi", 20)
  ELSE IF effect = "lo+45" THEN update_affection(gs, "lo", 45)
  ELSE IF effect = "lo-30" THEN update_affection(gs, "lo", -30)
  ELSE IF effect = "hi+70" THEN update_affection(gs, "hi", 70)
  ELSE IF effect = "hi-50" THEN update_affection(gs, "hi", -50)
  ELSE gs

\* ------------------------------------------------------------------------
\* DialogueScene (game_engine/scenes.py): one scene's own instruction list
\* ------------------------------------------------------------------------
_check_condition(characters, role_name, target_level) ==
  IF role_name \notin DOMAIN characters THEN FALSE
  ELSE characters[role_name].level >= target_level

RECURSIVE SkipElseOrEndifLoop(_, _, _)
SkipElseOrEndifLoop(lines, index, depth) ==
  IF index + 1 < Len(lines)
  THEN LET i == index + 1
           l_type == lines[i + 1].type
       IN  IF l_type = "if" THEN SkipElseOrEndifLoop(lines, i, depth + 1)
           ELSE IF l_type = "endif"
                THEN IF depth = 0 THEN i
                     ELSE SkipElseOrEndifLoop(lines, i, depth - 1)
           ELSE IF l_type = "else"
                THEN IF depth = 0 THEN i
                     ELSE SkipElseOrEndifLoop(lines, i, depth)
           ELSE SkipElseOrEndifLoop(lines, i, depth)
  ELSE index

RECURSIVE SkipToFirstMarker(_, _)
\* variant: the scan stops at the first else/endif, whatever its depth
SkipToFirstMarker(lines, index) ==
  IF index + 1 < Len(lines)
  THEN IF lines[index + 2].type \in {"else", "endif"} THEN index + 1
       ELSE SkipToFirstMarker(lines, index + 1)
  ELSE index

\* the value of self.index after _skip_to_else_or_endif
_skip_to_else_or_endif(lines, index) == SkipElseOrEndifLoop(lines, index, 0)

RECURSIVE SkipEndifLoop(_, _, _)
SkipEndifLoop(lines, index, depth) ==
  IF index + 1 < Len(lines)
  THEN LET i == index + 1
           l_type == lines[i + 1].type
       IN  IF l_type = "if" THEN SkipEndifLoop(lines, i, depth + 1)
           ELSE IF l_type = "endif"
                THEN IF depth = 0 THEN i
                     ELSE SkipEndifLoop(lines, i, depth - 1)
           ELSE SkipEndifLoop(lines, i, depth)
  ELSE index

RECURSIVE SkipToFirstEndif(_, _)
\* variant: the scan stops at the first endif, whatever its depth
SkipToFirstEndif(lines, index) ==
  IF index + 1 < Len(lines)
  THEN IF lines[index + 2].type = "endif" THEN index + 1
       ELSE SkipToFirstEndif(lines, index + 1)
  ELSE index

\* the value of self.index after _skip_to_endif
_skip_to_endif(lines, index) == SkipEndifLoop(lines, index, 0)

RECURSIVE CollectOptions(_, _)
\* the while loop of the choice_start branch, from temp_index on
CollectOptions(lines, temp_index) ==
  IF temp_index < Len(lines) /\ lines[temp_index + 1].type = "choice_option"
  THEN <<lines[temp_index + 1]>> \o CollectOptions(lines, temp_index + 1)
  ELSE <<>>

\* variant: the choice_start marker is not counted
ChoiceResumeIndexNoMarker(index, choice_options) == index + Len(choice_options)

\* make_choice without a target: self.index += len(self.choice_options) + 1
ChoiceResumeIndex(index, choice_options) == index + Len(choice_options) + 1

\* variant: a choice_start always opens its menu
AlwaysHasOptions(choice_options) == FALSE

\* "if not self.choice_options" of the choice_start branch
NoOptionsFound(choice_options) == choice_options = <<>>

RECURSIVE RunLine(_, _, _, _, _)
\* load_line up to the point where it stops inside the scene or leaves it:
\* kind is "wait" (a narrator/dialogue line is shown), "choice" (a menu is
\* open), "end" (end_dialogue) or "jump"; trace lists the index of every
\* load_line call, evals the outcome of every if that was evaluated
RunLine(lines, index, characters, trace, evals) ==
  LET tr == Append(trace, index)
  IN
  IF index >= Len(lines)
  THEN [kind |-> "end", index |-> index, trace |-> tr, evals |-> evals,
        options |-> <<>>]
  ELSE
    LET line == lines[index + 1]
        line_type == line.type
    IN
    IF line_type = "if"
    THEN IF _check_condition(characters, line.role, line.level)
         THEN RunLine(lines, index + 1, characters, tr,
                      [evals EXCEPT ![index + 1] = "true"])
         ELSE RunLine(lines, _skip_to_else_or_endif(lines, index) + 1,
                      characters, tr, [evals EXCEPT ![index + 1] = "false"])
    ELSE IF line_type = "else"
    THEN RunLine(lines, _skip_to_endif(lines, index) + 1, characters, tr,
                 evals)
    ELSE IF line_type \in {"narrator", "dialogue"}
    THEN [kind |-> "wait", index |-> index, trace |-> tr, evals |-> evals,
          options |-> <<>>]
    ELSE IF line_type = "jump"
    THEN [kind |-> "jump", index |-> index, trace |-> tr, evals |-> evals,
          options |-> <<>>]
    ELSE IF line_type = "choice_start"
    THEN LET choice_options == CollectOptions(lines, index + 1)
         IN  IF NoOptionsFound(choice_options)
             THEN RunLine(lines, index + 1, characters, tr, evals)
             ELSE [kind |-> "choice", index |-> index, trace |-> tr,
                   evals |-> evals, options |-> choice_options]
    ELSE RunLine(lines, index + 1, characters, tr, evals)

\* ------------------------------------------------------------------------
\* GameManager (game_engine/manager.py) and the scene objects
\* ------------------------------------------------------------------------
\* scene_name: "[支线: ...]" for a relationship story, else "Group g - Block b"
SceneName(rel, g, b) == [rel |-> rel, group |-> g, block |-> b]

TitleScene ==
  [kind |-> "title", scene_name |-> SceneName(FALSE, 0, 0), script_lines |-> <<>>,
   index |-> 0, in_choice |-> FALSE, choice_options |-> <<>>,
   full_text |-> NoText, evals |-> <<>>]

\* DialogueScene.__init__ before its call of load_line
FreshDialogueScene(script_lines, scene_name) ==
  [kind |-> "dialogue", scene_name |-> scene_name,
   script_lines |-> script_lines, index |-> 0, in_choice |-> FALSE,
   choice_options |-> <<>>, full_text |-> NoText,
   evals |-> [i \in 1..Len(script_lines) |-> "none"]]

\* data/stories/<id>_level_<n>.txt parsed by parse_script: the model has a
\* file for level 1 of "lo" only
HasRelationshipStory(char_name, level) == char_name = "lo" /\ level = 1

RelationshipStory(char_name, level) == <<Narrator("rel")>>

\* the manager while a handler runs: game_state, current_scene, whether the
\* recursion limit was hit, and the runs and navigations of this handler
Mgr(gs, cur) ==
  [gs |-> gs, cur |-> cur, crashed |-> FALSE, runs |-> <<>>, navs |-> <<>>,
   shown |-> play_log.shown]

RECURSIVE PlayCurrentScene(_, _)
RECURSIVE LoadLine(_, _, _, _)

\* change_scene(DialogueScene(self, lines, name)): the constructor runs
\* load_line, then the finished object becomes the current scene
ChangeToNewDialogue(story, script_lines, scene_name, M) ==
  LET r == LoadLine(story, FreshDialogueScene(script_lines, scene_name), M,
                    TRUE)
  IN  IF r.M.crashed THEN r.M ELSE [r.M EXCEPT !.cur = r.self]

advance_story(story, M) ==
  PlayCurrentScene(story, [M EXCEPT !.gs = advance_time(@)])

on_scene_complete(story, scene_name, M) ==
  IF scene_name.rel THEN PlayCurrentScene(story, M)
  ELSE advance_story(story, M)

\* play_current_scene, step 2 (main story)
PlayMainScene(story, M) ==
  LET state == M.gs
  IN  IF state.group \notin DOMAIN story
      THEN [M EXCEPT !.cur = TitleScene]
      ELSE LET group_data == story[state.group]
           IN  IF state.block \notin DOMAIN group_data
               THEN advance_story(story, M)
               ELSE LET block_data == group_data[state.block]
                    IN  IF block_data = <<>>
                        THEN advance_story(story, M)
                        ELSE ChangeToNewDialogue(story, block_data[1].lines,
                               SceneName(FALSE, state.group, state.block), M)

PlayCurrentScene(story, M) ==
  IF M.gs.pending_relationship_stories # <<>>
  THEN LET p == Head(M.gs.pending_relationship_stories)
           M1 == [M EXCEPT !.gs.pending_relationship_stories = Tail(@)]
       IN  IF HasRelationshipStory(p[1], p[2])
           THEN ChangeToNewDialogue(story, RelationshipStory(p[1], p[2]),
                                    SceneName(TRUE, 0, 0), M1)
           ELSE PlayMainScene(story, M1)
  ELSE PlayMainScene(story, M)

\* load_line of scene object s; in_init tells that the call comes from the
\* constructor.  Returns the object, the manager and whether
\* play_current_scene ran.  A main scene that reaches a jump from its
\* constructor with nothing pending is constructed again in the same state
\* without end: Python raises RecursionError.
LoadLine(story, s, M, in_init) ==
  LET run == RunLine(s.script_lines, s.index, M.gs.characters, <<>>, s.evals)
      self == [s EXCEPT
                 !.index = run.index,
                 !.evals = run.evals,
                 !.in_choice = IF run.kind = "choice" THEN TRUE ELSE @,
                 !.choice_options = IF run.kind = "choice" THEN run.options
                                    ELSE @,
                 !.full_text = IF run.kind = "wait"
                               THEN s.script_lines[run.index + 1].text ELSE @]
      M1 == [M EXCEPT !.runs = Append(@, [lines |-> s.script_lines,
                                         trace |-> run.trace,
                                         characters |-> M.gs.characters,
                                         evals |-> run.evals,
                                         kind |-> run.kind,
                                         options |-> run.options]),
                      !.shown = IF run.kind = "wait"
                                THEN @ \cup {s.script_lines[run.index + 1].text}
                                ELSE @]
  IN  IF run.kind = "end"
      THEN [self |-> self, changed |-> TRUE,
            M |-> on_scene_complete(story, s.scene_name, M1)]
      ELSE IF run.kind = "jump"
      THEN LET target_node == s.script_lines[run.index + 1].target
               M2 == [M1 EXCEPT !.gs.current_node_id = target_node,
                                !.navs = Append(@, target_node)]
           IN  IF in_init /\ ~s.scene_name.rel
                  /\ M2.gs.pending_relationship_stories = <<>>
               THEN [self |-> self, changed |-> TRUE,
                     M |-> [M2 EXCEPT !.crashed = TRUE]]
               ELSE [self |-> self, changed |-> TRUE,
                     M |-> PlayCurrentScene(story, M2)]
      ELSE [self |-> self, changed |-> FALSE, M |-> M1]

\* ------------------------------------------------------------------------
\* data/story.txt: its lines and the parser (game_engine/data.py)
\* ------------------------------------------------------------------------
\* a stripped line of the file, by the pattern it is an instance of: n and m
\* are its numbers, s and t its texts
TextLine(form) == [form |-> form, n |-> 0, m |-> 0, s |-> "", t |-> ""]

\* ""
BlankLine == TextLine("blank")

\* "=== Node: <node_id> ==="
NodeHeader(node_id) == [TextLine("node_header") EXCEPT !.n = node_id]

\* "=== Group <g> - Block <b> ==="
GroupHeader(g, b) == [TextLine("group_header") EXCEPT !.n = g, !.m = b]

\* "## <name>"
SceneHeader(name) == [TextLine("scene_header") EXCEPT !.s = name]

\* "旁白: <x>"
NarratorLine(x) == [TextLine("narrator") EXCEPT !.s = x]

\* "[CHOICE]"
ChoiceLine == TextLine("choice")

\* "选项<i>: <x> → [<e>]"
OptionLine(i, x, e) == [TextLine("option") EXCEPT !.n = i, !.s = x, !.t = e]

\* "<scene>name</scene>"
SceneTag(name) == [TextLine("scene_tag") EXCEPT !.s = name]

\* "<content id="who">x</content>"
ContentTag(who, x) == [TextLine("content_tag") EXCEPT !.t = who, !.s = x]

\* "<choice target="target">x</choice>"
ChoiceTag(target, x) == [TextLine("choice_tag") EXCEPT !.n = target, !.s = x]

\* the first two characters of a speaker token that starts with the option
\* prefix (line 204)
OptionPrefix == "option-prefix"

\* "<token>: <x>" that is no narrator, protagonist, option or sound line and
\* no [IF: ...] or [IMAGE: ...] directive: start holds the first two
\* characters of the token, length the number of its characters
SpeakerLine(start, length, x) ==
  [TextLine("speaker_line") EXCEPT !.t = start, !.n = length, !.s = x]

\* _parse_line returned None
NoInstruction == Ins("None")

\* the text after the first colon of "=== Node: <id> ==="
HeaderTail(node_id) == ToString(node_id) \o " ==="

\* variant: a line no pattern matches is kept as narration
_parse_line_verbatim(line) ==
  IF line.form = "if" THEN IfIns(line.t, line.n)
  ELSE IF line.form = "else" THEN ElseIns
  ELSE IF line.form = "endif" THEN EndIfIns
  ELSE IF line.form = "image" THEN ImageIns(line.s)
  ELSE IF line.form = "narrator" THEN Narrator(line.s)
  ELSE IF line.form = "protagonist" THEN Dialogue("protagonist", line.s)
  ELSE IF line.form = "dialogue" THEN Dialogue(line.t, line.s)
  ELSE IF line.form = "speaker_line"
  THEN IF line.t # OptionPrefix /\ line.n < 20
       THEN Dialogue(line.t, line.s) ELSE NoInstruction
  ELSE IF line.form = "node_header"
  THEN Dialogue("=== Node", HeaderTail(line.n))
  ELSE IF line.form = "sound" /\ line.s # ""
  THEN Dialogue("SOUND_EFFECT", line.s)
  ELSE IF line.form = "choice" THEN ChoiceStart
  ELSE IF line.form = "option"
  THEN [Ins("choice_option") EXCEPT !.index = line.n, !.text = line.s,
                                    !.effect = line.t]
  ELSE IF line.form = "sound" THEN SoundIns("")
  ELSE Narrator(line.s)

\* _parse_line: the patterns in the order the code tries them.  The dialogue
\* pattern "<speaker>: <text>" comes before [CHOICE], the option pattern and
\* SOUND_EFFECT, so it takes a node header and a sound line with a value;
\* it rejects a speaker that starts with the option prefix.
_parse_line(line) ==
  IF line.form = "if" THEN IfIns(line.t, line.n)
  ELSE IF line.form = "else" THEN ElseIns
  ELSE IF line.form = "endif" THEN EndIfIns
  ELSE IF line.form = "image" THEN ImageIns(line.s)
  ELSE IF line.form = "narrator" THEN Narrator(line.s)
  ELSE IF line.form = "protagonist" THEN Dialogue("protagonist", line.s)
  ELSE IF line.form = "dialogue" THEN Dialogue(line.t, line.s)
  ELSE IF line.form = "speaker_line"
  THEN IF line.t # OptionPrefix /\ line.n < 20
       THEN Dialogue(line.t, line.s) ELSE NoInstruction
  ELSE IF line.form = "node_header"
  THEN Dialogue("=== Node", HeaderTail(line.n))
  ELSE IF line.form = "sound" /\ line.s # ""
  THEN Dialogue("SOUND_EFFECT", line.s)
  ELSE IF line.form = "choice" THEN ChoiceStart
  ELSE IF line.form = "option"
  THEN [Ins("choice_option") EXCEPT !.index = line.n, !.text = line.s,
                                    !.effect = line.t]
  ELSE IF line.form = "sound" THEN SoundIns("")
  ELSE NoInstruction

\* block_data[key] = lines on the ordered dict block_data
DictSet(block_data, key, lines) ==
  IF \E i \in DOMAIN block_data : block_data[i].key = key
  THEN [i \in DOMAIN block_data |->
          IF block_data[i].key = key THEN Scene(key, lines)
          ELSE block_data[i]]
  ELSE Append(block_data, Scene(key, lines))

\* groups[current_group][current_block] exists
HasBlock(groups, g, b) == g \in DOMAIN groups /\ b \in DOMAIN groups[g]

\* groups[g][b][current_time] = current_lines
SaveScene(groups, g, b, current_time, current_lines) ==
  [groups EXCEPT ![g][b] = DictSet(@, current_time, current_lines)]

RECURSIVE ParseStoryLoop(_, _, _)
\* the for loop of parse_story; current_time is the n of "scene_<n>", 0 for
\* the empty string; error is the exception that left the loop
ParseStoryLoop(lines, i, st) ==
  IF i > Len(lines) \/ st.error # "none" THEN st
  ELSE
    LET line == lines[i]
        g == st.current_group
        b == st.current_block
    IN
    IF line.form \in {"blank", "preamble", "end_marker"}
    THEN ParseStoryLoop(lines, i + 1, st)
    ELSE IF line.form = "group_header"
    THEN LET groups1 == IF line.n \in DOMAIN st.groups THEN st.groups
                        ELSE st.groups @@ (line.n :> <<>>)
             groups2 == IF line.m \in DOMAIN groups1[line.n] THEN groups1
                        ELSE [groups1 EXCEPT ![line.n] = @ @@ (line.m :> <<>>)]
         IN  ParseStoryLoop(lines, i + 1,
               [st EXCEPT !.groups = groups2, !.current_group = line.n,
                          !.current_block = line.m])
    ELSE IF line.form = "scene_header"
    THEN IF ~HasBlock(st.groups, g, b)
         THEN [st EXCEPT !.error = "KeyError"]
         ELSE LET groups1 ==
                    IF st.current_time # 0 /\ st.current_lines # <<>>
                    THEN SaveScene(st.groups, g, b, st.current_time,
                                   st.current_lines)
                    ELSE st.groups
              IN  ParseStoryLoop(lines, i + 1,
                    [st EXCEPT !.groups = groups1,
                               !.current_time = Len(groups1[g][b]) + 1,
                               !.current_lines = <<Background(line.s)>>])
    ELSE IF g # 0 /\ b # 0 /\ st.current_time # 0
    THEN LET parsed_line == _parse_line(line)
         IN  ParseStoryLoop(lines, i + 1,
               IF parsed_line # NoInstruction
               THEN [st EXCEPT !.current_lines = Append(@, parsed_line)]
               ELSE st)
    ELSE ParseStoryLoop(lines, i + 1, st)

\* variant: the locals are attributes that outlive the call
KeptLocals == parser_locals

\* lines 86-90: the locals parse_story starts with
NewLocals ==
  [groups |-> <<>>, current_group |-> 0, current_block |-> 0,
   current_time |-> 0, current_lines |-> <<>>, error |-> "none"]

\* parse_story: the groups it returns, or the exception it raises, and the
\* locals at that point
parse_story(text) ==
  LET st == ParseStoryLoop(text, 1, NewLocals)
  IN  IF st.error # "none"
      THEN [error |-> st.error, groups |-> <<>>, locals |-> st]
      ELSE IF st.current_group # 0 /\ st.current_block # 0
              /\ st.current_time # 0 /\ st.current_lines # <<>>
      THEN [error |-> "none",
            groups |-> SaveScene(st.groups, st.current_group,
                                 st.current_block, st.current_time,
                                 st.current_lines),
            locals |-> st]
      ELSE [error |-> "none", groups |-> st.groups, locals |-> st]

RECURSIVE ParseScriptLoop(_, _)
\* the for loop of parse_script
ParseScriptLoop(lines, i) ==
  IF i > Len(lines) THEN <<>>
  ELSE IF lines[i].form \in {"blank", "preamble", "end_marker"}
  THEN ParseScriptLoop(lines, i + 1)
  ELSE LET parsed == _parse_line(lines[i])
       IN  (IF parsed # NoInstruction THEN <<parsed>> ELSE <<>>)
           \o ParseScriptLoop(lines, i + 1)

\* parse_script: the instruction list of a script without headers
parse_script(text) == ParseScriptLoop(text, 1)

\* ------------------------------------------------------------------------
\* _generate_full_story (workflow.py)
\* ------------------------------------------------------------------------
\* nothing was played yet
NoPlay == [started |-> FALSE, shown |-> {}]

\* the playback engine is not running
PlayIdle ==
  /\ loaded_text = <<>>
  /\ parsed_story = <<>>
  /\ game_state = NewGameState
  /\ current_scene = TitleScene
  /\ status = "off"
  /\ runs = <<>>
  /\ navs = <<>>
  /\ play_log = NoPlay

\* what load_game has left: nothing yet
NoLoad ==
  [done |-> FALSE, scene_name |-> SceneName(FALSE, 0, 0), index |-> 0,
   in_choice |-> FALSE, state |-> NewGameState]

\* data/savegame.json does not exist
NoSave ==
  [exists |-> FALSE, data |-> NewGameState, scene_state |-> FALSE, index |-> 0,
   scene_name |-> SceneName(FALSE, 0, 0), loaded |-> NoLoad]

\* no LLMClient exists
NoChat ==
  [provider |-> "none", client |-> FALSE, max_retries |-> 0, attempt |-> 0,
   pc |-> "off", calls |-> 0, log |-> <<>>, waits |-> <<>>, result |-> 0,
   error |-> 0]

\* no design document is loaded
NoDesign == [nodes |-> {}, edges |-> <<>>, node_type |-> "none"]

\* parser_locals before any parse_story call
NoLocals ==
  [groups |-> <<>>, current_group |-> 0, current_block |-> 0,
   current_time |-> 0, current_lines |-> <<>>, error |-> "none"]

\* no caller of the workflow or of the parser is modelled
HarnessIdle ==
  /\ game_design = NoDesign
  /\ script_text = <<>>
  /\ parse_calls = <<>>
  /\ parser_locals = NoLocals
  /\ savegame = NoSave
  /\ llm = NoChat

\* the text shown for a node by the scripts of the model
NodeText(node_id) == "text of node " \o ToString(node_id)

\* choices_data (line 735): the out-edges of the node in adjacency order
choices_data(node_id) == SelectSeq(edges, LAMBDA e : e.from = node_id)

\* The answer of the writer for a node.  "tags" is the format the synthesis
\* prompt prescribes; "legacy" is the Group/Block format parse_story reads,
\* one block per node; "scenes" is a scene heading without a section header.
WriterScript(format, node_id) ==
  LET choices == SelectSeq(choices_data(node_id),
                           LAMBDA c : c.choice_text # NoChoiceText)
  IN  IF format = "tags"
      THEN <<SceneTag("hall"), BlankLine,
             ContentTag("narrator", NodeText(node_id))>>
           \o [i \in DOMAIN choices |->
                 ChoiceTag(choices[i].to, choices[i].choice_text)]
      ELSE IF format = "legacy"
      THEN <<GroupHeader(1, node_id + 1), SceneHeader("hall"),
             NarratorLine(NodeText(node_id))>>
           \o (IF choices = <<>> THEN <<>>
               ELSE <<ChoiceLine>>
                    \o [i \in DOMAIN choices |->
                          OptionLine(i, choices[i].choice_text, "lo+20")])
      ELSE <<SceneHeader("hall"), NarratorLine(NodeText(node_id))>>

\* _save_node_story: what the three writes append to the file
_save_node_story(text, node_id, content) ==
  text \o <<BlankLine, NodeHeader(node_id)>> \o content

\* lines 549-555: the file exists and holds the header of the node
node_exists(node_id) == NodeHeader(node_id) \in Range(story_text)

\* the node dicts of the design documents, up to the names of the nodes
\* other than root: ids in dict order, with or without root
NodeSets ==
  {0..k : k \in (-1)..MaxNodeId} \cup {1..k : k \in 1..MaxNodeId}

\* the edges between different nodes of N, choice texts left out
EdgesBetween(N) ==
  {e \in [from : N, to : N, choice_text : {NoChoiceText}] : e.from # e.to}

\* what may follow the edge list: nothing, its last edge once more, or an
\* edge from the last node to itself
ExtraEdges(N, es) ==
  {<<>>}
  \cup (IF es = <<>> THEN {} ELSE {<<es[Len(es)]>>})
  \cup (IF N = {} THEN {}
        ELSE LET n == CHOOSE x \in N : \A y \in N : y <= x
             IN  {<<[from |-> n, to |-> n, choice_text |-> NoChoiceText]>>})

\* The design documents: the nodes, and an edge list in (from, to) order
\* with an optional extra edge.
GraphInit ==
  /\ \E N \in NodeSets :
       \E E \in SubsetsUpTo(EdgesBetween(N), MaxEdges) :
         \E extra \in ExtraEdges(N, EdgeSeq(E)) :
           /\ Cardinality(E) + Len(extra) <= MaxEdges
           /\ nodes = SortedSeq(N)
           /\ edges = EdgeSeq(E) \o extra
  /\ has_actors \in BOOLEAN
  /\ gpc = "start"
  /\ node_order = <<>>
  /\ gidx = 0
  /\ sorted_nodes = <<>>
  /\ node_summaries = {}
  /\ long_term_memory = NoMemory
  /\ story_text = <<>>
  /\ writer_formats = {"tags"}
  /\ PlayIdle
  /\ HarnessIdle

\* lines 528-542: build the graph, validate, sort
GenStart ==
  /\ gpc = "start"
  /\ sorted_nodes' = topological_sort
  /\ IF validate[1]
     THEN /\ gpc' = "loop"
          /\ node_order' = topological_sort
          /\ gidx' = 1
     ELSE /\ gpc' = "invalid"
          /\ UNCHANGED <<node_order, gidx>>
  /\ UNCHANGED <<nodes, edges, has_actors, node_summaries, long_term_memory,
                 story_text, writer_formats>>

\* lines 548-566: the node's section is already in the story file
GenSkipExisting ==
  /\ gpc = "loop"
  /\ gidx <= Len(node_order)
  /\ node_exists(node_order[gidx])
  /\ node_summaries' = node_summaries \cup {node_order[gidx]}
  /\ gidx' = gidx + 1
  /\ long_term_memory' = NoMemory
  /\ UNCHANGED <<sorted_nodes, nodes, edges, has_actors, gpc, node_order,
                 story_text, writer_formats>>

\* lines 568-595: the node is new, build its context
GenBuildContext ==
  /\ gpc = "loop"
  /\ gidx <= Len(node_order)
  /\ ~node_exists(node_order[gidx])
  /\ long_term_memory' =
       _build_long_term_memory(node_order[gidx], node_summaries)
  /\ gpc' = "built"
  /\ UNCHANGED <<sorted_nodes, nodes, edges, has_actors, node_order, gidx,
                 node_summaries, story_text, writer_formats>>

\* lines 597-752: generate, save and summarise the node
GenProduce ==
  /\ gpc = "built"
  /\ IF has_actors
     THEN /\ \E format \in writer_formats :
               story_text' = _save_node_story(story_text, node_order[gidx],
                               WriterScript(format, node_order[gidx]))
          /\ node_summaries' = node_summaries \cup {node_order[gidx]}
     ELSE UNCHANGED <<story_text, node_summaries>>
  /\ gidx' = gidx + 1
  /\ gpc' = "loop"
  /\ UNCHANGED <<sorted_nodes, nodes, edges, has_actors, node_order,
                 long_term_memory, writer_formats>>

\* lines 756-757: a collaborator raised, the whole generation is abandoned
GenFail ==
  /\ gpc = "built"
  /\ gpc' = "failed"
  /\ UNCHANGED <<sorted_nodes, nodes, edges, has_actors, node_order, gidx,
                 node_summaries, long_term_memory, story_text, writer_formats>>

\* line 754: the loop is exhausted
GenFinish ==
  /\ gpc = "loop"
  /\ gidx > Len(node_order)
  /\ gpc' = "done"
  /\ UNCHANGED <<sorted_nodes, nodes, edges, has_actors, node_order, gidx,
                 node_summaries, long_term_memory, story_text, writer_formats>>

\* _generate_full_story is called again on the same design and story file;
\* its locals start afresh and the cast is loaded anew
GenRestart ==
  /\ gpc \in {"failed", "done"}
  /\ has_actors' \in BOOLEAN
  /\ gpc' = "start"
  /\ node_order' = <<>>
  /\ gidx' = 0
  /\ sorted_nodes' = <<>>
  /\ node_summaries' = {}
  /\ long_term_memory' = NoMemory
  /\ UNCHANGED <<nodes, edges, story_text, writer_formats>>

GraphNext ==
  \/ GenStart /\ UNCHANGED <<pvars, xvars>>
  \/ GenSkipExisting /\ UNCHANGED <<pvars, xvars>>
  \/ GenBuildContext /\ UNCHANGED <<pvars, xvars>>
  \/ GenProduce /\ UNCHANGED <<pvars, xvars>>
  \/ GenFail /\ UNCHANGED <<pvars, xvars>>
  \/ GenFinish /\ UNCHANGED <<pvars, xvars>>
  \/ GenRestart /\ UNCHANGED <<pvars, xvars>>

GraphSpec == GraphInit /\ [][GraphNext]_vars

\* ------------------------------------------------------------------------
\* Playback: the handlers of the running game
\* ------------------------------------------------------------------------
\* no generation is running
GraphIdle ==
  /\ nodes = <<>>
  /\ edges = <<>>
  /\ has_actors = FALSE
  /\ gpc = "idle"
  /\ node_order = <<>>
  /\ gidx = 0
  /\ sorted_nodes = <<>>
  /\ node_summaries = {}
  /\ long_term_memory = NoMemory
  /\ story_text = <<>>
  /\ writer_formats = {}

CondAlphabet ==
  {IfIns("hi", 1), IfIns("lo", 1), ElseIns, EndIfIns, Narrator("t")}

NavAlphabet ==
  {Narrator("t"), JumpIns(2), ChoiceStart, ChoiceOption(NoTarget, NoEffect),
   ChoiceOption(2, NoEffect), ChoiceOption(NoTarget, "lo+20"),
   IfIns("lo", 1)}

\* a story with the script S alone
StoryA(S) == 1 :> (1 :> <<Scene(1, S)>>)

\* a story with a second scene in the block of S, an empty block, a later
\* block and a second group
StoryB(S) ==
  (1 :> (1 :> <<Scene(1, S), Scene(2, <<Narrator("s2")>>)>> @@ 3 :> <<>>
         @@ 4 :> <<Scene(1, <<Narrator("b4")>>)>>))
  @@ (2 :> (1 :> <<Scene(1, <<Narrator("n2")>>)>>))

PlayInit ==
  /\ \/ \E S \in SeqsUpTo(CondAlphabet, MaxCondLen) : parsed_story = StoryA(S)
     \/ \E S \in SeqsUpTo(NavAlphabet, MaxNavLen) :
          parsed_story \in {StoryA(S), StoryB(S)}
  /\ game_state = NewGameState
  /\ current_scene = TitleScene
  /\ status = "ok"
  /\ runs = <<>>
  /\ navs = <<>>
  /\ play_log = NoPlay
  /\ loaded_text = <<>>
  /\ GraphIdle
  /\ HarnessIdle

\* the manager state a handler leaves behind
HandlerDone(M) ==
  /\ game_state' = M.gs
  /\ current_scene' = M.cur
  /\ status' = IF M.crashed THEN "RecursionError" ELSE "ok"
  /\ runs' = M.runs
  /\ navs' = M.navs
  /\ play_log' = [started |-> TRUE, shown |-> M.shown]
  /\ UNCHANGED <<loaded_text, parsed_story>>

\* TitleScene.start_game -> GameManager.start_story
StartStory ==
  /\ status = "ok"
  /\ current_scene.kind = "title"
  /\ HandlerDone(PlayCurrentScene(parsed_story,
        [Mgr([game_state EXCEPT !.group = 1, !.block = 1], current_scene)
           EXCEPT !.shown = {}]))

\* DialogueScene.process_input: the click that asks for the next line
\* the manager after the click: lines 595-597
NextLine ==
  LET s1 == [current_scene EXCEPT !.index = @ + 1]
      r == LoadLine(parsed_story, s1, Mgr(game_state, s1), FALSE)
  IN  IF r.changed THEN r.M ELSE [r.M EXCEPT !.cur = r.self]

Advance ==
  /\ status = "ok"
  /\ current_scene.kind = "dialogue"
  /\ ~current_scene.in_choice
  /\ HandlerDone(NextLine)

\* DialogueScene.make_choice, called by the button of option choice_index
MakeChoice(choice_index) ==
  /\ status = "ok"
  /\ current_scene.kind = "dialogue"
  /\ current_scene.in_choice
  /\ choice_index < Len(current_scene.choice_options)
  /\ Len(game_state.choices_made) < MaxChoices
  /\ LET choice == current_scene.choice_options[choice_index + 1]
         target == choice.target
         gs1 == [game_state EXCEPT !.choices_made =
                   Append(@, [scene |-> current_scene.scene_name,
                              target |-> target])]
     IN  IF target # NoTarget
         THEN LET M == [Mgr([gs1 EXCEPT !.current_node_id = target],
                            current_scene) EXCEPT !.navs = <<target>>]
              IN  HandlerDone(PlayCurrentScene(parsed_story, M))
         ELSE LET gs2 == _apply_choice_effect(gs1, choice.effect)
                  s1 == [current_scene EXCEPT
                           !.index = ChoiceResumeIndex(@,
                                       current_scene.choice_options),
                           !.in_choice = FALSE,
                           !.choice_options = <<>>]
                  r == LoadLine(parsed_story, s1, Mgr(gs2, s1), FALSE)
              IN  HandlerDone(IF r.changed THEN r.M
                              ELSE [r.M EXCEPT !.cur = r.self])

PlayNext ==
  \/ StartStory /\ UNCHANGED <<gvars, xvars>>
  \/ Advance /\ UNCHANGED <<gvars, xvars>>
  \/ \E i \in 0..(MaxNavLen - 1) : MakeChoice(i) /\ UNCHANGED <<gvars, xvars>>

PlaySpec == PlayInit /\ [][PlayNext]_vars

\* ------------------------------------------------------------------------
\* Playback of scenes with display instructions, conditions on roles in and
\* out of the cast, and effects on both characters
\* ------------------------------------------------------------------------
\* longest first scene, in instructions
MaxWaitLen == 4

WaitAlphabet ==
  {Background("hall"), ImageIns("none"), IfIns("ghost", 0), IfIns("lo", 1),
   EndIfIns, Narrator("t"), ChoiceStart,
   ChoiceOption(NoTarget, "hi+20"), ChoiceOption(NoTarget, "lo+20")}

\* the scenes of the block after the first one
NextScenes ==
  {<<JumpIns(2)>>, <<Background("yard"), Dialogue("hi", "d")>>}

\* a story with the script S in block 1 and the script T in block 2
StoryC(S, T) == 1 :> (1 :> <<Scene(1, S)>> @@ 2 :> <<Scene(1, T)>>)

WaitInit ==
  /\ \E S \in SeqsUpTo(WaitAlphabet, MaxWaitLen) : \E T \in NextScenes :
       parsed_story = StoryC(S, T)
  /\ game_state = NewGameState
  /\ current_scene = TitleScene
  /\ status = "ok"
  /\ runs = <<>>
  /\ navs = <<>>
  /\ play_log = NoPlay
  /\ loaded_text = <<>>
  /\ GraphIdle
  /\ HarnessIdle

WaitSpec == WaitInit /\ [][PlayNext]_vars

\* ------------------------------------------------------------------------
\* Save and load of a running game (manager.py, state.py, scenes.py)
\* ------------------------------------------------------------------------
\* longest scene of a saved game, in instructions
MaxSaveLen == 4

SaveAlphabet ==
  {Narrator("t"), ChoiceStart, ChoiceOption(NoTarget, "lo+20"),
   ChoiceOption(NoTarget, NoEffect)}

\* GameState.to_dict: the fields of the model that are written
to_dict(gs) ==
  [group |-> gs.group, block |-> gs.block, characters |-> gs.characters,
   choices_made |-> gs.choices_made,
   pending_relationship_stories |-> gs.pending_relationship_stories]

\* GameState.from_dict: the saved characters update or extend the present
\* ones, the other saved fields replace theirs
from_dict(gs, data) ==
  [gs EXCEPT
     !.group = data.group,
     !.block = data.block,
     !.characters =
        [name \in DOMAIN gs.characters \cup DOMAIN data.characters |->
           IF name \in DOMAIN data.characters THEN data.characters[name]
           ELSE gs.characters[name]],
     !.choices_made = data.choices_made,
     !.pending_relationship_stories = data.pending_relationship_stories]

\* DialogueScene.restore_state on the current scene of M
restore_state(story, index, M) ==
  LET s1 == [M.cur EXCEPT !.index = index]
      r == LoadLine(story, s1, M, FALSE)
  IN  IF r.changed THEN r.M ELSE [r.M EXCEPT !.cur = r.self]

\* GameManager.load_game from the point where the file was read: M1 is the
\* manager after play_current_scene; an exception of the calls is caught
\* and reported (line 109)
load_game(story, data, M) ==
  LET Restored(M1) ==
        IF ~M1.crashed /\ data.scene_state /\ M1.cur.kind = "dialogue"
        THEN restore_state(story, data.index, M1)
        ELSE M1
  IN  CHOOSE M2 \in
        {[Restored(M1) EXCEPT !.crashed = FALSE] :
           M1 \in {PlayCurrentScene(story,
                      [M EXCEPT !.gs = from_dict(@, data.data)])}} : TRUE

SaveInit ==
  /\ \E S \in SeqsUpTo(SaveAlphabet, MaxSaveLen) : parsed_story = StoryA(S)
  /\ game_state = NewGameState
  /\ current_scene = TitleScene
  /\ status = "ok"
  /\ runs = <<>>
  /\ navs = <<>>
  /\ play_log = NoPlay
  /\ loaded_text = <<>>
  /\ GraphIdle
  /\ HarnessIdle

\* the save button of the dialogue scene: GameManager.save_game
SaveGame ==
  /\ status = "ok"
  /\ current_scene.kind = "dialogue"
  /\ savegame' =
       [exists |-> TRUE, data |-> to_dict(game_state), scene_state |-> TRUE,
        index |-> current_scene.index,
        scene_name |-> current_scene.scene_name, loaded |-> NoLoad]
  /\ UNCHANGED <<pvars, game_design, script_text, parse_calls, parser_locals,
                 llm>>

\* the load button of the dialogue scene: GameManager.load_game, after
\* which process_input goes on in the scene object that was clicked: when
\* its text is fully typed and no menu is open, it steps to its next line
LoadGame(typed) ==
  /\ status = "ok"
  /\ current_scene.kind = "dialogue"
  /\ savegame.exists
  /\ \E M \in {load_game(parsed_story, savegame,
                          Mgr(game_state, current_scene))} :
       /\ savegame' =
            [savegame EXCEPT !.loaded =
               [done |-> TRUE, scene_name |-> M.cur.scene_name,
                index |-> M.cur.index, in_choice |-> M.cur.in_choice,
                state |-> M.gs]]
       /\ \E M2 \in {IF typed /\ ~current_scene.in_choice
                      THEN LoadLine(parsed_story,
                                    [current_scene EXCEPT !.index = @ + 1],
                                    M, FALSE).M
                      ELSE M} :
            HandlerDone(M2)
  /\ UNCHANGED <<game_design, script_text, parse_calls, parser_locals, llm>>

SaveNext ==
  \/ PlayNext
  \/ SaveGame /\ UNCHANGED gvars
  \/ \E typed \in BOOLEAN : LoadGame(typed) /\ UNCHANGED gvars

SaveSpec == SaveInit /\ [][SaveNext]_vars

\* ------------------------------------------------------------------------
\* Playback of a scene of menus whose options change the affection
\* ------------------------------------------------------------------------
\* the effect texts of the options: rises over one and over several
\* thresholds, past 100, and falls, past 0
AffectEffects == {"lo+20", "lo+45", "lo-30", "hi+70", "hi-50"}

\* a [CHOICE] block with one option per effect of es
Menu(es) ==
  <<ChoiceStart>> \o [i \in DOMAIN es |-> ChoiceOption(NoTarget, es[i])]

RECURSIVE Menus(_, _)
\* the script of n such blocks
Menus(es, n) == IF n = 0 THEN <<>> ELSE Menu(es) \o Menus(es, n - 1)

AffectInit ==
  /\ \E es \in [1..3 -> AffectEffects] :
       parsed_story = StoryA(Menus(es, MaxChoices))
  /\ game_state = NewGameState
  /\ current_scene = TitleScene
  /\ status = "ok"
  /\ runs = <<>>
  /\ navs = <<>>
  /\ play_log = NoPlay
  /\ loaded_text = <<>>
  /\ GraphIdle
  /\ HarnessIdle

AffectSpec == AffectInit /\ [][PlayNext]_vars

\* ------------------------------------------------------------------------
\* LLMClient.chat_completion (agents/llm_client.py)
\* ------------------------------------------------------------------------
\* largest max_retries a caller passes; the default is 3
MaxRetries == 4

\* APIConfig.TEXT_PROVIDER in lower case
Providers == {"openai", "google", "other"}

\* variant: no attempt is taken for the last one
NeverLastAttempt(attempt, max_retries) == FALSE

\* line 94, negated: the failed attempt was the last one allowed
IsLastAttempt(attempt, max_retries) == ~(attempt < max_retries - 1)

\* chat_completion was entered: the client object was made by __init__ when
\* the provider is known and a key is configured
ChatInit ==
  /\ \E provider \in Providers : \E client \in BOOLEAN :
       \E max_retries \in 1..MaxRetries :
         /\ client => provider # "other"
         /\ llm = [provider |-> provider, client |-> client,
                   max_retries |-> max_retries, attempt |-> 0, pc |-> "for",
                   calls |-> 0, log |-> <<>>, waits |-> <<>>, result |-> 0,
                   error |-> 0]
  /\ game_design = NoDesign
  /\ script_text = <<>>
  /\ parse_calls = <<>>
  /\ parser_locals = NoLocals
  /\ savegame = NoSave
  /\ GraphIdle
  /\ PlayIdle

\* line 85: the for statement takes the next attempt or falls out of the
\* loop, and the function returns None
ForAttempt ==
  /\ llm.pc = "for"
  /\ llm' = [llm EXCEPT !.pc = IF llm.attempt < llm.max_retries THEN "try"
                               ELSE "returned_none"]

\* lines 86-92 and 93-101: _chat_openai or _chat_google asks the provider
\* when there is a client, and answers (answered) or raises; without a
\* client, and for another provider, ValueError is raised before any call
TryChat(answered) ==
  /\ llm.pc = "try"
  /\ answered => llm.client
  /\ LET n == Len(llm.log) + 1
         l1 == [llm EXCEPT
                  !.calls = IF llm.client THEN @ + 1 ELSE @,
                  !.log = Append(@, IF answered THEN "ok" ELSE "fail")]
     IN  llm' = IF answered THEN [l1 EXCEPT !.pc = "returned", !.result = n]
                ELSE IF IsLastAttempt(llm.attempt, llm.max_retries)
                THEN [l1 EXCEPT !.pc = "raised", !.error = n]
                ELSE [l1 EXCEPT !.pc = "sleep"]

\* lines 95-98: time.sleep(2 ** attempt), then the next round of the loop
Backoff ==
  /\ llm.pc = "sleep"
  /\ llm' = [llm EXCEPT !.waits = Append(@, 2 ^ llm.attempt),
                        !.attempt = @ + 1, !.pc = "for"]

ChatNext ==
  \/ ForAttempt /\ UNCHANGED <<gvars, pvars, game_design, script_text,
                               parse_calls, parser_locals, savegame>>
  \/ \E answered \in BOOLEAN :
       TryChat(answered) /\ UNCHANGED <<gvars, pvars, game_design, script_text,
                                        parse_calls, parser_locals, savegame>>
  \/ Backoff /\ UNCHANGED <<gvars, pvars, game_design, script_text,
                            parse_calls, parser_locals, savegame>>

ChatSpec == ChatInit /\ [][ChatNext]_vars

\* ------------------------------------------------------------------------
\* Round trip: generate the story file, load it into the game, play it
\* ------------------------------------------------------------------------
\* the graph root -> A (no choice text), A -> B (choice "go"), with A = 1
\* and B = 2
ExampleNodes == <<RootId, 1, 2>>

ExampleEdges ==
  <<[from |-> RootId, to |-> 1, choice_text |-> NoChoiceText],
    [from |-> 1, to |-> 2, choice_text |-> "go"]>>

WriterFormats == {"tags", "legacy", "scenes"}

RoundTripInit ==
  /\ nodes = ExampleNodes
  /\ edges = ExampleEdges
  /\ has_actors \in BOOLEAN
  /\ gpc = "start"
  /\ node_order = <<>>
  /\ gidx = 0
  /\ sorted_nodes = <<>>
  /\ node_summaries = {}
  /\ long_term_memory = NoMemory
  /\ story_text = <<>>
  /\ writer_formats \in (SUBSET WriterFormats) \ {{}}
  /\ PlayIdle
  /\ HarnessIdle

\* GameManager.__init__ in play mode, which asks for the design file a
\* creation run leaves behind: load_game_data reads story.txt, parse_story
\* parses it when it is not empty, the title scene is shown
GameInit ==
  /\ status = "off"
  /\ gpc \in {"invalid", "failed", "done"}
  /\ loaded_text' = story_text
  /\ LET p == IF story_text # <<>> THEN parse_story(story_text)
              ELSE [error |-> "none", groups |-> <<>>]
     IN  /\ parsed_story' = p.groups
         /\ status' = IF p.error = "none" THEN "ok" ELSE p.error
  /\ game_state' = NewGameState
  /\ current_scene' = TitleScene
  /\ runs' = <<>>
  /\ navs' = <<>>
  /\ play_log' = NoPlay

RoundTripNext ==
  \/ GraphNext
  \/ GameInit /\ UNCHANGED <<gvars, xvars>>
  \/ PlayNext

RoundTripSpec == RoundTripInit /\ [][RoundTripNext]_vars

\* ------------------------------------------------------------------------
\* StoryParser called on arbitrary text (game_engine/data.py)
\* ------------------------------------------------------------------------
\* longest text of the model, in lines
MaxTextLen == 4

\* most StoryParser calls in a behaviour
MaxParses == 3

\* the lines the texts are made of: a group header, a scene header, a
\* narrator line, a tag line (no pattern of the parser)
LineAlphabet ==
  {GroupHeader(1, 1), SceneHeader("hall"), NarratorLine("a"),
   SceneTag("hall")}

\* a second text, parsed between the calls on script_text
OtherText == <<GroupHeader(1, 1), SceneHeader("yard"), NarratorLine("b")>>

\* the forms no pattern of parse_story, parse_script or _parse_line matches
NoPatternForms == {"scene_tag", "content_tag", "choice_tag"}

\* lines without line i
RemoveLine(lines, i) ==
  [k \in 1..(Len(lines) - 1) |-> IF k < i THEN lines[k] ELSE lines[k + 1]]

ParseInit ==
  /\ script_text \in SeqsUpTo(LineAlphabet, MaxTextLen)
  /\ parse_calls = <<>>
  /\ parser_locals = NoLocals
  /\ game_design = NoDesign
  /\ savegame = NoSave
  /\ llm = NoChat
  /\ GraphIdle
  /\ PlayIdle

\* StoryParser.parse_story(text), called on script_text or on OtherText
ParseStory(text) ==
  /\ Len(parse_calls) < MaxParses
  /\ LET r == parse_story(text)
     IN  /\ parse_calls' = Append(parse_calls,
              [fn |-> "parse_story", text |-> text, error |-> r.error,
               groups |-> r.groups, lines |-> <<>>])
         /\ parser_locals' = r.locals
  /\ UNCHANGED <<script_text, game_design, savegame, llm>>

\* StoryParser.parse_script(script_text)
ParseScript ==
  /\ Len(parse_calls) < MaxParses
  /\ parse_calls' = Append(parse_calls,
       [fn |-> "parse_script", text |-> script_text, error |-> "none",
        groups |-> <<>>, lines |-> parse_script(script_text)])
  /\ UNCHANGED <<script_text, parser_locals, game_design, savegame, llm>>

\* the caller removes line i, which matches no pattern, from its text
DropLine(i) ==
  /\ i \in DOMAIN script_text
  /\ script_text[i].form \in NoPatternForms
  /\ script_text' = RemoveLine(script_text, i)
  /\ UNCHANGED <<parse_calls, parser_locals, game_design, savegame, llm>>

ParseNext ==
  \/ ParseStory(script_text) /\ UNCHANGED <<gvars, pvars>>
  \/ ParseStory(OtherText) /\ UNCHANGED <<gvars, pvars>>
  \/ ParseScript /\ UNCHANGED <<gvars, pvars>>
  \/ \E i \in 1..MaxTextLen : DropLine(i) /\ UNCHANGED <<gvars, pvars>>

ParseSpec == ParseInit /\ [][ParseNext]_vars

\* ------------------------------------------------------------------------
\* StoryParser called once on a text of several sections and of
\* "speaker: text" lines
\* ------------------------------------------------------------------------
\* longest text, in lines
MaxScriptLen == 4

\* headers of two blocks, a scene header, narrator lines, and speaker lines
\* with a short name, a name of 20 characters, a token with the option
\* prefix and a token that starts with a bracket, as in "[BGM: rain]"
ScriptAlphabet ==
  {GroupHeader(1, 1), GroupHeader(1, 2), SceneHeader("hall"),
   NarratorLine("a"), NarratorLine("b"),
   SpeakerLine("Am", 3, "c"), SpeakerLine("Am", 20, "d"),
   SpeakerLine(OptionPrefix, 3, "e"), SpeakerLine("[B", 4, "f")}

ScriptInit ==
  /\ script_text \in SeqsUpTo(ScriptAlphabet, MaxScriptLen)
  /\ parse_calls = <<>>
  /\ parser_locals = NoLocals
  /\ game_design = NoDesign
  /\ savegame = NoSave
  /\ llm = NoChat
  /\ GraphIdle
  /\ PlayIdle

\* the text is read once, as a story file (load_game_data) or as the
\* script of a relationship story (play_current_scene)
ScriptNext ==
  \/ parse_calls = <<>> /\ ParseStory(script_text) /\ UNCHANGED <<gvars, pvars>>
  \/ parse_calls = <<>> /\ ParseScript /\ UNCHANGED <<gvars, pvars>>

ScriptSpec == ScriptInit /\ [][ScriptNext]_vars

\* ------------------------------------------------------------------------
\* _generate_full_story from the design document on (workflow.py,
\* agents/story_graph.py)
\* ------------------------------------------------------------------------
\* largest node id of a design document
MaxDocNodeId == 2

\* most distinct edges of a design document
MaxDocEdges == 3

DocIds == 0..MaxDocNodeId

\* story_graph['nodes']: the ids 0..k or 1..k, so that an edge of the
\* document may name a node the document does not have
DocNodeSets ==
  {0..k : k \in (-1)..MaxDocNodeId} \cup {1..k : k \in 1..MaxDocNodeId}

\* story_graph['edges'] is made of these
DocEdges ==
  {e \in [from : DocIds, to : DocIds, choice_text : {NoChoiceText}] :
     e.from # e.to}

\* the 'type' field the nodes of the document carry
NodeTypes == {"normal", "merge"}

\* StoryGraph.__init__ and _load_dag_format: the adjacency lists are filled
\* per edge by indexing dicts keyed by the node ids
_load_dag_format(story_graph) ==
  IF \E i \in DOMAIN story_graph.edges :
       \/ story_graph.edges[i].from \notin story_graph.nodes
       \/ story_graph.edges[i].to \notin story_graph.nodes
  THEN [error |-> "KeyError", nodes |-> <<>>, edges |-> <<>>]
  ELSE [error |-> "none", nodes |-> SortedSeq(story_graph.nodes),
        edges |-> story_graph.edges]

LoadInit ==
  /\ \E N \in DocNodeSets :
       \E E \in SubsetsUpTo(DocEdges, MaxDocEdges) :
         \E extra \in ExtraEdges(N, EdgeSeq(E)) :
           \E t \in NodeTypes :
             game_design = [nodes |-> N, edges |-> EdgeSeq(E) \o extra,
                            node_type |-> t]
  /\ nodes = <<>>
  /\ edges = <<>>
  /\ has_actors \in BOOLEAN
  /\ gpc = "design"
  /\ node_order = <<>>
  /\ gidx = 0
  /\ sorted_nodes = <<>>
  /\ node_summaries = {}
  /\ long_term_memory = NoMemory
  /\ story_text = <<>>
  /\ writer_formats = {"tags"}
  /\ script_text = <<>>
  /\ parse_calls = <<>>
  /\ parser_locals = NoLocals
  /\ savegame = NoSave
  /\ llm = NoChat
  /\ PlayIdle

\* line 528: story_graph = StoryGraph(self.game_design); an exception of
\* the constructor is caught at line 756 and ends the generation
LoadGraph ==
  /\ gpc = "design"
  /\ LET g == _load_dag_format(game_design)
     IN  /\ nodes' = g.nodes
         /\ edges' = g.edges
         /\ gpc' = IF g.error = "none" THEN "start" ELSE g.error
  /\ UNCHANGED <<has_actors, node_order, gidx, sorted_nodes, node_summaries,
                 long_term_memory, story_text, writer_formats>>

LoadNext ==
  \/ LoadGraph /\ UNCHANGED <<pvars, xvars>>
  \/ GraphNext

LoadSpec == LoadInit /\ [][LoadNext]_vars

\* ------------------------------------------------------------------------
\* Graph properties
\* ------------------------------------------------------------------------
EdgeSet == Range(edges)

RECURSIVE UpClosure(_)
\* least set containing S and closed under taking parents
UpClosure(S) ==
  LET P == S \cup {e.from : e \in {f \in EdgeSet : f.to \in S}}
  IN  IF P = S THEN S ELSE UpClosure(P)

RECURSIVE DownClosureAvoiding(_, _)
\* nodes reachable from S along edges that do not enter the node avoid
DownClosureAvoiding(S, avoid) ==
  LET P == S \cup {e.to : e \in {f \in EdgeSet : f.from \in S /\ f.to # avoid}}
  IN  IF P = S THEN S ELSE DownClosureAvoiding(P, avoid)

\* a lies on every path from root to n
MustTraverse(a, n) ==
  \/ a = RootId
  \/ a = n
  \/ n \notin DownClosureAvoiding({RootId}, a)

HasCycle == \E e \in EdgeSet : e.to \in UpClosure({e.from})

\* position of n in the sequence s, 0 when absent
Pos(s, n) == IF n \in Range(s) THEN CHOOSE i \in DOMAIN s : s[i] = n ELSE 0

IsTopologicalOrder(s) ==
  /\ Len(s) = Len(nodes)
  /\ Range(s) = NodeSet
  /\ \A e \in EdgeSet : Pos(s, e.from) < Pos(s, e.to)

CurrentNode == node_order[gidx]

\* validate has just called topological_sort (sorted_nodes is not assigned
\* again before the next run)
JustSorted == gpc = "invalid" \/ (gpc = "loop" /\ gidx = 1)

CommonAncestors(n) ==
  {a \in NodeIds : \A p \in Range(get_parents(n)) : a \in UpClosure({p})}

\* C1: the memory built for a node with two or more parents lists the
\* summary of a exactly when a is an inclusive ancestor of every parent and
\* a has a recorded summary.
C1_MergeMemoryIsCommonAncestors ==
  (gpc = "built" /\ Len(get_parents(CurrentNode)) >= 2) =>
    \A a \in NodeIds :
      a \in Range(long_term_memory.parts)
        <=> (a \in CommonAncestors(CurrentNode) /\ a \in node_summaries)

\* C1 witness: a merge point whose memory holds a common ancestor and leaves
\* out a parent that has a summary
C1_Witness ==
  /\ gpc = "built"
  /\ Len(get_parents(CurrentNode)) >= 2
  /\ long_term_memory.parts # <<>>
  /\ \E p \in Range(get_parents(CurrentNode)) :
       p \in node_summaries /\ p \notin Range(long_term_memory.parts)

\* C2: the memory built for any node lists only summaries of nodes that
\* every path from root to the node passes through.
C2_MemoryOnlyTraversedNodes ==
  gpc = "built" =>
    \A a \in Range(long_term_memory.parts) : MustTraverse(a, CurrentNode)

\* C3: for a graph without a cycle, topological_sort returns every node
\* exactly once with the source of every edge before its target.
C3_TopologicalOrder ==
  (JustSorted /\ ~HasCycle) => IsTopologicalOrder(sorted_nodes)

\* C3 witness: an acyclic graph with a merge point has been sorted
C3_Witness ==
  /\ JustSorted
  /\ ~HasCycle
  /\ Len(sorted_nodes) >= 3
  /\ \E n \in NodeSet : is_merge_point(n)

\* C4: for a graph with a cycle, topological_sort returns the empty list,
\* which is not an order of the (non-empty) graph, never a partial list.
C4_CycleIsFailure ==
  (JustSorted /\ HasCycle) => (sorted_nodes = <<>> /\ Len(nodes) > 0)

\* C4 witness: a cyclic graph with a node outside the cycle (which Kahn's
\* loop does emit) has been sorted
C4_Witness ==
  /\ JustSorted
  /\ HasCycle
  /\ \E n \in NodeSet : Len(get_parents(n)) = 0
  /\ sorted_nodes = <<>>

\* ------------------------------------------------------------------------
\* Playback properties
\* ------------------------------------------------------------------------
TypeAt(lines, i) == lines[i + 1].type

CountType(lines, a, b, t) == Cardinality({k \in a..b : TypeAt(lines, k) = t})

\* the instructions a..b (0-based, inclusive) are balanced in if/endif
Balanced(lines, a, b) ==
  /\ \A k \in a..b :
       CountType(lines, a, k, "endif") <= CountType(lines, a, k, "if")
  /\ CountType(lines, a, b, "endif") = CountType(lines, a, b, "if")

\* the else/endif markers at nesting depth 0 after position i
MarkersAfter(lines, i, types) ==
  {j \in (i + 1)..(Len(lines) - 1) :
     TypeAt(lines, j) \in types /\ Balanced(lines, i + 1, j - 1)}

\* the if at i has its endif at j and at most one else of its own
WellNestedBlock(lines, i, j) ==
  /\ TypeAt(lines, i) = "if"
  /\ MarkersAfter(lines, i, {"endif"}) # {}
  /\ j = Min(MarkersAfter(lines, i, {"endif"}))
  /\ Cardinality({e \in MarkersAfter(lines, i, {"else"}) : e < j}) <= 1

\* d lies in the body of the block (i, j) that is chosen when the if is
\* true (which = "true") or false (which = "false")
InBody(lines, i, j, d, which) ==
  LET elses == {e \in MarkersAfter(lines, i, {"else"}) : e < j}
  IN  IF elses = {} THEN which = "true" /\ i < d /\ d < j
      ELSE LET e == Min(elses)
           IN  IF which = "true" THEN i < d /\ d < e ELSE e < d /\ d < j

RunSet == Range(runs)

\* C5: a ConditionIf that evaluates false resumes right after the first
\* else/endif at nesting depth 0; nested markers do not end the scan.
C5_FalseIfResumesAfterMatch ==
  \A r \in RunSet : \A k \in 1..(Len(r.trace) - 1) :
    LET i == r.trace[k]
        markers == MarkersAfter(r.lines, i, {"else", "endif"})
    IN  (/\ TypeAt(r.lines, i) = "if"
         /\ ~_check_condition(r.characters, r.lines[i + 1].role,
                              r.lines[i + 1].level)
         /\ markers # {})
        => r.trace[k + 1] = Min(markers) + 1

\* C5 witness: a false if whose skipped body holds a nested if/endif, matched
\* by its own else, after which a line is shown
C5_Witness ==
  \E r \in RunSet : \E k \in 1..(Len(r.trace) - 1) :
    LET i == r.trace[k]
        markers == MarkersAfter(r.lines, i, {"else", "endif"})
    IN  /\ TypeAt(r.lines, i) = "if"
        /\ r.evals[i + 1] = "false"
        /\ markers # {}
        /\ TypeAt(r.lines, Min(markers)) = "else"
        /\ \E n \in (i + 1)..(Min(markers) - 1) : TypeAt(r.lines, n) = "endif"
        /\ r.kind = "wait"
        /\ r.trace[k + 1] = Min(markers) + 1
        /\ r.trace[Len(r.trace)] = Min(markers) + 1

\* C6: of a well-nested if/else/endif block exactly the selected body is
\* executed: a true if continues with its body and the else reached from it
\* resumes right after the matching endif, and no instruction inside the
\* non-selected body is ever loaded.
C6_BodiesAreExclusive ==
  \A r \in RunSet :
    /\ \A k \in 1..(Len(r.trace) - 1) :
         LET i == r.trace[k]
         IN  /\ (TypeAt(r.lines, i) = "if" /\ r.evals[i + 1] = "true")
                  => r.trace[k + 1] = i + 1
             /\ (TypeAt(r.lines, i) = "else"
                 /\ MarkersAfter(r.lines, i, {"endif"}) # {})
                  => r.trace[k + 1] = Min(MarkersAfter(r.lines, i, {"endif"})) + 1
    /\ \A k \in 1..Len(r.trace) : \A i, j \in 0..(Len(r.lines) - 1) :
         LET d == r.trace[k]
         IN  WellNestedBlock(r.lines, i, j) =>
               /\ InBody(r.lines, i, j, d, "true") => r.evals[i + 1] = "true"
               /\ InBody(r.lines, i, j, d, "false") => r.evals[i + 1] = "false"

\* C6 witness: a line of the else body is shown after the if was false, and
\* in another block of the same script the else was skipped
C6_Witness ==
  \E r \in RunSet : \E i, j \in 0..(Len(r.lines) - 1) :
    /\ r.kind = "wait"
    /\ WellNestedBlock(r.lines, i, j)
    /\ InBody(r.lines, i, j, r.trace[Len(r.trace)], "false")
    /\ r.evals[i + 1] = "false"
    /\ \E k \in 1..Len(r.trace) : TypeAt(r.lines \o <<ElseIns>>, r.trace[k]) = "else"
                                  /\ r.trace[k] < Len(r.lines)

\* the instruction list of node t: the first scene of its section
NodeScript(t) == parsed_story[t][1][1].lines

KnownNodes == DOMAIN parsed_story

C8_PlainChoiceFallsThrough ==
  [][(/\ current_scene.in_choice
      /\ game_state'.choices_made # game_state.choices_made
      /\ game_state'.choices_made[Len(game_state'.choices_made)].target
           = NoTarget)
     => LET lines == current_scene.script_lines
            p == runs'[1].trace[1]
        IN  /\ navs' = <<>> =>
                 game_state'.current_node_id = game_state.current_node_id
            /\ runs'[1].lines = lines
            /\ p > current_scene.index + 1
            /\ \A q \in (current_scene.index + 1)..(p - 1) :
                 TypeAt(lines, q) = "choice_option"
            /\ p < Len(lines) => TypeAt(lines, p) # "choice_option"
            /\ p <= Len(lines)
            /\ runs'[1].kind \in {"wait", "choice"} =>
                 /\ current_scene'.script_lines = lines
                 /\ current_scene'.index >= p
                 /\ current_scene'.in_choice <=> runs'[1].kind = "choice"]_vars

\* C8 witness: after a choice without target the line after the option run
\* is shown
C8_Witness ==
  /\ game_state.choices_made # <<>>
  /\ game_state.choices_made[Len(game_state.choices_made)].target = NoTarget
  /\ navs = <<>>
  /\ Len(runs) = 1
  /\ runs[1].kind = "wait"
  /\ Len(runs[1].trace) = 1
  /\ runs[1].trace[1] > 1
  /\ TypeAt(runs[1].lines, runs[1].trace[1] - 1) = "choice_option"
  /\ TypeAt(runs[1].lines, runs[1].trace[1] - 2) = "choice_start"
  /\ current_scene.index = runs[1].trace[1]

StoryComplete == \A n \in NodeSet : node_exists(n)

\* every line of the file is of the node-delimited tag format
TagFormatted ==
  \A i \in DOMAIN story_text :
    story_text[i].form \in {"blank", "node_header", "scene_tag",
                            "content_tag", "choice_tag"}

\* the running game was constructed from the present content of the file
GameLoadedFromFile == status # "off" /\ loaded_text = story_text

\* C10: for the graph root -> A -> B, once the generated tag-format file was
\* loaded and the story played from root until the game is back at the
\* title, the content of A and the content of B have been shown.
C10_RoundTripReachesAThenB ==
  (/\ nodes = ExampleNodes
   /\ edges = ExampleEdges
   /\ StoryComplete
   /\ TagFormatted
   /\ GameLoadedFromFile
   /\ play_log.started
   /\ current_scene.kind = "title")
  => (status = "ok" /\ {NodeText(1), NodeText(2)} \subseteq play_log.shown)

\* ------------------------------------------------------------------------
\* Properties of the parser
\* ------------------------------------------------------------------------
ParseCalls == {parse_calls[i] : i \in DOMAIN parse_calls}

\* the parts of a call's record that the caller gets back
Returned(c) == <<c.error, c.groups, c.lines>>

\* C11: parse_story and parse_script never raise, whatever the text, also
\* when a scene line comes before any section header.
C11_ParsingNeverRaises == \A c \in ParseCalls : c.error = "none"

DiffersByUnmatchedLine(a, b) ==
  \E p \in DOMAIN a : a[p].form \in NoPatternForms /\ b = RemoveLine(a, p)

\* C13: a line that matches no pattern yields no instruction and no error,
\* and the text without it parses to the same instruction lists.
C13_UnmatchedLinesAreDropped ==
  /\ \A c \in ParseCalls :
       (\A p \in DOMAIN c.text : c.text[p].form \in NoPatternForms)
       => (c.error = "none" /\ c.lines = <<>>
           /\ \A g \in DOMAIN c.groups : \A b \in DOMAIN c.groups[g] :
                c.groups[g][b] = <<>>)
  /\ \A c, d \in ParseCalls :
       (c.fn = d.fn /\ DiffersByUnmatchedLine(c.text, d.text))
       => Returned(c) = Returned(d)

\* a scene with a tag line before its narrator line was parsed with and
\* without the tag line
C13_Witness ==
  \E c, d \in ParseCalls :
    /\ c.fn = "parse_story" /\ d.fn = "parse_story"
    /\ c.text = <<GroupHeader(1, 1), SceneHeader("hall"), SceneTag("hall"),
                  NarratorLine("a")>>
    /\ d.text = RemoveLine(c.text, 3)
    /\ d.groups[1][1] = <<Scene(1, <<Background("hall"), Narrator("a")>>)>>

\* ------------------------------------------------------------------------
\* Properties of the design document, validate and the memory branches
\* ------------------------------------------------------------------------
\* an edge of the document names a node the document does not have
DocHasDanglingEdge ==
  \E i \in DOMAIN game_design.edges :
    \/ game_design.edges[i].from \notin game_design.nodes
    \/ game_design.edges[i].to \notin game_design.nodes

HasDanglingEdge == \E e \in EdgeSet : e.from \notin NodeSet \/ e.to \notin NodeSet

\* the first violated check in the order edge endpoints, root, cycle
FirstViolation ==
  IF HasDanglingEdge THEN "missing_node"
  ELSE IF RootId \notin NodeSet THEN "no_root"
  ELSE IF HasCycle THEN "cycle"
  ELSE "ok"

\* C14: validate reports the first violated check in the order (1) an edge
\* endpoint is no node, (2) there is no root node, (3) there is a cycle, and
\* success exactly when no check is violated.
C14_ValidateReportsInOrder ==
  JustSorted => (validate[2] = FirstViolation
                 /\ (validate[1] <=> FirstViolation = "ok"))

\* C15: building the graph from a document with an edge to or from a
\* missing node does not raise; the generation goes on to validate, which
\* reports the failure.
C15_ConstructionDefersToValidate ==
  (DocHasDanglingEdge /\ gpc # "design") => gpc \in {"start", "invalid"}

\* nodes without an incoming edge
Sources == {n \in NodeSet : \A e \in EdgeSet : e.to # n}

\* validate accepted the graph and the generation loop runs on it
Accepted == gpc \in {"loop", "built", "done"}

\* C16: a graph that validate accepts has exactly one node without incoming
\* edges, which is root, all its edges join existing nodes and it has no
\* cycle.
C16_AcceptedGraphIsRooted ==
  Accepted => (Sources = {RootId} /\ ~HasDanglingEdge /\ ~HasCycle)

\* the number of entries of parents(n)
ParentEntries(n) == Cardinality({i \in DOMAIN edges : edges[i].to = n})

\* the ancestors whose summaries the merge branch (merge = TRUE) or the
\* ordinary branch reports for n
BranchAncestors(n, merge) ==
  IF merge THEN CommonAncestors(n) ELSE UpClosure(Range(get_parents(n)))

\* C17: is_merge_point(n) holds exactly when parents(n) has two or more
\* entries, whatever the type field of the nodes says, and the memory of a
\* node is built by the merge branch exactly then.
C17_MergePointIffTwoParents ==
  Accepted =>
    /\ \A n \in NodeSet : is_merge_point(n) <=> ParentEntries(n) >= 2
    /\ gpc = "built" =>
         LET merge == ParentEntries(CurrentNode) >= 2
         IN  /\ Range(long_term_memory.parts) =
                  BranchAncestors(CurrentNode, merge) \cap node_summaries
             /\ long_term_memory.kind \in
                  (IF merge THEN {"summaries", "merge_start"}
                   ELSE {"summaries", "game_start"})

\* C17 witness: a node typed "normal" with two parent entries got the
\* memory of the merge branch, and a node with one parent did not
C17_Witness ==
  /\ gpc = "built"
  /\ game_design.node_type = "normal"
  /\ ParentEntries(CurrentNode) >= 2
  /\ long_term_memory.kind = "merge_start"
  /\ \E n \in NodeSet : ParentEntries(n) = 1 /\ ~is_merge_point(n)

\* C19: a merge point whose parents have no common ancestor with a summary
\* gets the "multiple paths converge here" text, and no memory is the empty
\* string (a summaries text without any line).
C19_MemoryNeverEmpty ==
  gpc = "built" =>
    /\ long_term_memory.kind \in {"summaries", "merge_start", "game_start"}
    /\ long_term_memory.kind = "summaries" => long_term_memory.parts # <<>>
    /\ (/\ ParentEntries(CurrentNode) >= 2
        /\ CommonAncestors(CurrentNode) \cap node_summaries = {})
       => long_term_memory.kind = "merge_start"

\* C19 witness: summaries exist, none of a common ancestor of the parents
\* of the merge point, and the memory is the fallback text
C19_Witness ==
  /\ gpc = "built"
  /\ ParentEntries(CurrentNode) >= 2
  /\ node_summaries # {}
  /\ CommonAncestors(CurrentNode) \cap node_summaries = {}
  /\ long_term_memory.kind = "merge_start"

C18_MissingRoleIsLevelZero ==
  status = "ok" =>
    \A r \in RunSet : \A i \in DOMAIN r.lines :
      (/\ r.lines[i].type = "if"
       /\ r.lines[i].role \notin DOMAIN r.characters
       /\ r.evals[i] # "none")
      => (r.evals[i] = "true" <=> r.lines[i].level <= 0)

\* ------------------------------------------------------------------------
\* Properties of the choice menu
\* ------------------------------------------------------------------------
\* the first index from i on that holds no choice_option
OptionRunEnd(lines, i) ==
  Min({j \in i..Len(lines) :
         j = Len(lines) \/ TypeAt(lines, j) # "choice_option"})

\* the maximal run of choice_option instructions that starts at index i
OptionRun(lines, i) == SubSeq(lines, i + 1, OptionRunEnd(lines, i))

\* index i starts a run of choice_option instructions that no choice_start
\* and no other option precedes
BareOptionRun(lines, i) ==
  /\ i < Len(lines)
  /\ TypeAt(lines, i) = "choice_option"
  /\ i > 0 => TypeAt(lines, i - 1) \notin {"choice_start", "choice_option"}

\* C21: load_line on a choice_start stops there with a menu that is exactly
\* the maximal run of choice_option instructions right after it, in order;
\* load_line on a choice_option run that no choice_start precedes stops
\* there as well, with that run as the menu.
C21_MenuIsFollowingOptionRun ==
  \A r \in RunSet : \A t \in DOMAIN r.trace :
    LET i == r.trace[t]
    IN  /\ (/\ i < Len(r.lines)
            /\ TypeAt(r.lines, i) = "choice_start"
            /\ OptionRun(r.lines, i + 1) # <<>>)
           => /\ t = Len(r.trace)
              /\ r.kind = "choice"
              /\ r.options = OptionRun(r.lines, i + 1)
        /\ BareOptionRun(r.lines, i)
           => /\ t = Len(r.trace)
              /\ r.kind = "choice"
              /\ r.options = OptionRun(r.lines, i)

\* the menu part of C21 alone: what a choice_start with options opens
MenuOfChoiceStart ==
  \A r \in RunSet : \A t \in DOMAIN r.trace :
    LET i == r.trace[t]
    IN  (/\ i < Len(r.lines)
         /\ TypeAt(r.lines, i) = "choice_start"
         /\ OptionRun(r.lines, i + 1) # <<>>)
        => /\ t = Len(r.trace)
           /\ r.kind = "choice"
           /\ r.options = OptionRun(r.lines, i + 1)

\* C22: a choice_start with no choice_option right after it, also as the
\* last instruction, opens no menu and is no error: load_line goes on with
\* the instruction after it, and no scene waits on an empty menu.
C22_EmptyChoiceIsSkipped ==
  /\ \A r \in RunSet : \A t \in DOMAIN r.trace :
       LET i == r.trace[t]
       IN  (/\ i < Len(r.lines)
            /\ TypeAt(r.lines, i) = "choice_start"
            /\ OptionRun(r.lines, i + 1) = <<>>)
           => /\ t < Len(r.trace)
              /\ r.trace[t + 1] = i + 1
  /\ current_scene.in_choice => current_scene.choice_options # <<>>

\* C22 witness: a choice_start that ends the instruction list was passed,
\* the scene was completed and the game went on without an error
C22_Witness ==
  /\ status = "ok"
  /\ \E r \in RunSet : \E t \in 1..(Len(r.trace) - 1) :
       /\ TypeAt(r.lines, r.trace[t]) = "choice_start"
       /\ r.trace[t] + 1 = Len(r.lines)
       /\ r.trace[t + 1] = Len(r.lines)
       /\ r.kind = "end"

\* ------------------------------------------------------------------------
\* Properties of the endings reachable in the story graph
\* ------------------------------------------------------------------------
\* the graph object exists: the constructor returned
GraphBuilt == gpc \notin {"design", "KeyError"}

\* the nodes without children reachable from n along edges, n included
EndingsFrom(n) ==
  {e \in DownClosureAvoiding({n}, -1) : \A f \in EdgeSet : f.from # e}

\* C23: get_reachable_endings(n) lists exactly the nodes without children
\* that are reachable from n along edges (n itself when it has none), each
\* of them once also when several paths lead to it, on every graph, cyclic
\* ones included.
C23_ReachableEndingsOnce ==
  GraphBuilt =>
    \A n \in DocIds :
      LET endings == get_reachable_endings(n)
      IN  /\ Range(endings) = EndingsFrom(n)
          /\ \A i, j \in DOMAIN endings : endings[i] = endings[j] => i = j

\* C23 witness: the ending 2 is reached from 0 directly and through 1 and
\* is listed once; in a graph with a cycle the node outside it is the ending
C23_Witness ==
  /\ GraphBuilt
  /\ \/ /\ {<<e.from, e.to>> : e \in EdgeSet} = {<<0, 1>>, <<0, 2>>, <<1, 2>>}
        /\ get_reachable_endings(0) = <<2>>
     \/ /\ {<<e.from, e.to>> : e \in EdgeSet} = {<<0, 1>>, <<1, 0>>, <<1, 2>>}
        /\ get_reachable_endings(0) = <<2>>

\* ------------------------------------------------------------------------
\* Properties of the generation order
\* ------------------------------------------------------------------------
\* the ancestors of n, n left out
ProperAncestors(n) == UpClosure(Range(get_parents(n)))

\* the content of a is in the story file and its summary is recorded
Generated(a) == node_exists(a) /\ a \in node_summaries

\* C24: the generation loop takes the nodes in topological order, every
\* parent of the node at hand comes earlier in node_order, and when the
\* context of a node has been built every ancestor of the node has its
\* content in the story file and its summary in node_summaries.
C24_AncestorsGeneratedFirst ==
  gpc \in {"loop", "built"} =>
    /\ IsTopologicalOrder(node_order)
    /\ gpc = "built" =>
         /\ \A p \in Range(get_parents(CurrentNode)) :
              Pos(node_order, p) < gidx
         /\ \A a \in ProperAncestors(CurrentNode) : Generated(a)

\* the same for the runs whose cast is not empty
AncestorsGeneratedWithCast ==
  (has_actors /\ gpc = "built") =>
    \A a \in ProperAncestors(CurrentNode) : Generated(a)

\* ------------------------------------------------------------------------
\* Properties of sections and of speaker lines
\* ------------------------------------------------------------------------
\* the group headers before line i of text
HeadersBefore(text, i) == {k \in 1..(i - 1) : text[k].form = "group_header"}

\* the section of line i: the numbers of the last group header before it
SectionOf(text, i) ==
  LET h == CHOOSE k \in HeadersBefore(text, i) :
             \A j \in HeadersBefore(text, i) : j <= k
  IN  <<text[h].n, text[h].m>>

\* line i lies in a scene of its section: a scene header stands between the
\* section's header and the line
InSceneOfSection(text, i) ==
  /\ HeadersBefore(text, i) # {}
  /\ \E k \in 1..(i - 1) :
       /\ text[k].form = "scene_header"
       /\ \A h \in HeadersBefore(text, i) : h < k

\* the instruction ins is in a scene of block b of group g
StoredIn(groups, g, b, ins) ==
  /\ HasBlock(groups, g, b)
  /\ \E k \in DOMAIN groups[g][b] : ins \in Range(groups[g][b][k].lines)

\* C25: parse_story stores the instruction of every narrator line under the
\* section whose header most recently precedes the line, and every narrator
\* instruction found under a section comes from a line of that section: no
\* content moves to a later section and no header loses the lines before it.
C25_LinesStayInTheirSection ==
  \A c \in ParseCalls :
    (c.fn = "parse_story" /\ c.error = "none") =>
      /\ \A i \in DOMAIN c.text :
           (c.text[i].form = "narrator" /\ InSceneOfSection(c.text, i))
           => StoredIn(c.groups, SectionOf(c.text, i)[1],
                       SectionOf(c.text, i)[2], Narrator(c.text[i].s))
      /\ \A g \in DOMAIN c.groups : \A b \in DOMAIN c.groups[g] :
           \A k \in DOMAIN c.groups[g][b] :
             \A ins \in Range(c.groups[g][b][k].lines) :
               ins.type = "narrator" =>
                 \E i \in DOMAIN c.text :
                   /\ c.text[i] = NarratorLine(ins.text)
                   /\ HeadersBefore(c.text, i) # {}
                   /\ SectionOf(c.text, i) = <<g, b>>

\* the speaker lines a text holds, as the claim of C26 would parse them: a
\* Dialogue for a token that is short and starts neither with the option
\* prefix nor with a bracket
ShortPlainSpeaker(line) ==
  line.n < 20 /\ line.t # OptionPrefix /\ line.t # "[B"

\* C26: parse_script turns a "speaker: text" line into a Dialogue only if
\* the speaker token has fewer than 20 characters and starts neither with
\* the option prefix nor with "["; any other such line gives no Dialogue.
C26_DialogueOnlyForPlainSpeaker ==
  \A c \in ParseCalls :
    c.fn = "parse_script" =>
      \A ins \in Range(c.lines) :
        ins.type = "dialogue" =>
          \E i \in DOMAIN c.text :
            /\ c.text[i].form = "speaker_line"
            /\ c.text[i].t = ins.speaker /\ c.text[i].s = ins.text
            /\ ShortPlainSpeaker(c.text[i])

\* the two conditions the code does check: length and option prefix
DialogueOnlyForShortNonOption ==
  \A c \in ParseCalls :
    c.fn = "parse_script" =>
      /\ \A ins \in Range(c.lines) :
           ins.type = "dialogue" =>
             \E i \in DOMAIN c.text :
               /\ c.text[i].form = "speaker_line"
               /\ c.text[i].t = ins.speaker /\ c.text[i].s = ins.text
               /\ c.text[i].n < 20 /\ c.text[i].t # OptionPrefix
      /\ \A i \in DOMAIN c.text :
           (/\ c.text[i].form = "speaker_line"
            /\ c.text[i].n < 20 /\ c.text[i].t # OptionPrefix)
           => Dialogue(c.text[i].t, c.text[i].s) \in Range(c.lines)

\* ------------------------------------------------------------------------
\* Properties of save and load
\* ------------------------------------------------------------------------
\* C27: when load_game has returned, the game is where it was saved: the
\* current scene is the scene that was saved, at the saved instruction
\* index, and group, block, characters, choices made and pending
\* relationship stories are the saved ones, whatever was played since the
\* save and whether or not relationship stories were pending when saving.
C27_LoadRestoresSavedPosition ==
  savegame.loaded.done =>
    /\ savegame.loaded.scene_name = savegame.scene_name
    /\ savegame.loaded.index = savegame.index
    /\ savegame.loaded.state.group = savegame.data.group
    /\ savegame.loaded.state.block = savegame.data.block
    /\ savegame.loaded.state.characters = savegame.data.characters
    /\ savegame.loaded.state.choices_made = savegame.data.choices_made
    /\ savegame.loaded.state.pending_relationship_stories =
         savegame.data.pending_relationship_stories

\* the same for saves made with no relationship story pending, in the main
\* scene of the current block with no menu before the saved line
LoadRestoresPlainSave ==
  (/\ savegame.loaded.done
   /\ savegame.data.pending_relationship_stories = <<>>
   /\ savegame.scene_name =
        SceneName(FALSE, savegame.data.group, savegame.data.block)
   /\ \A i \in 0..(savegame.index - 1) :
        TypeAt(parsed_story[savegame.data.group][savegame.data.block][1].lines, i)
          # "choice_start")
  => /\ savegame.loaded.scene_name = savegame.scene_name
     /\ savegame.loaded.index = savegame.index
     /\ ~savegame.loaded.in_choice
          \/ TypeAt(parsed_story[savegame.data.group][savegame.data.block][1].lines,
                    savegame.index) = "choice_start"
     /\ to_dict(savegame.loaded.state) = savegame.data

\* a save made at the narrator line after a choice, with the relationship
\* story of that choice pending, has been loaded: the menu of instruction 0
\* is open again and nothing is pending
PendingSaveLoaded ==
  /\ parsed_story = StoryA(<<ChoiceStart, ChoiceOption(NoTarget, "lo+20"),
                             Narrator("t")>>)
  /\ savegame.loaded.done
  /\ savegame.index = 2
  /\ savegame.data.pending_relationship_stories = <<(<<"lo", 1>>)>>
  /\ savegame.loaded.scene_name = savegame.scene_name
  /\ savegame.loaded.index = 0
  /\ savegame.loaded.in_choice
  /\ savegame.loaded.state.pending_relationship_stories = <<>>

\* ------------------------------------------------------------------------
\* Properties of affection and relationship levels
\* ------------------------------------------------------------------------
\* s is what is left of t after some of its first elements were taken
IsSuffix(s, t) == \E k \in 0..Len(t) : s = SubSeq(t, k + 1, Len(t))

CastNames == DOMAIN game_state.characters

\* the stories a step enqueues for the levels crossed by character c
LevelsCrossed(c) ==
  LET old == game_state.characters[c].level
      new == game_state'.characters[c].level
  IN  [k \in 1..(new - old) |-> <<c, old + k>>]

\* C28: in a game played from its start no level ever decreases and the
\* affection stays within 0..100; a choice that raises the level of a
\* character enqueues one relationship story for each level crossed, in
\* ascending order, behind the stories already pending (from whose head the
\* scene sequencing takes some when the choice ends the scene); so no
\* pending story is for a level above the character's and none is pending
\* twice.
C28_LevelsRiseAndEnqueueOnce ==
  [][/\ \A c \in CastNames :
          /\ game_state'.characters[c].level >= game_state.characters[c].level
          /\ game_state'.characters[c].affection \in 0..100
     /\ Len(game_state'.choices_made) = Len(game_state.choices_made) + 1 =>
          \E c \in CastNames :
            /\ \A d \in CastNames \ {c} :
                 game_state'.characters[d] = game_state.characters[d]
            /\ IsSuffix(game_state'.pending_relationship_stories,
                        game_state.pending_relationship_stories
                          \o LevelsCrossed(c))
            /\ runs'[1].kind \in {"wait", "choice"} =>
                 game_state'.pending_relationship_stories =
                   game_state.pending_relationship_stories \o LevelsCrossed(c)
     /\ LET pending == game_state'.pending_relationship_stories
        IN  /\ \A i \in DOMAIN pending :
                 pending[i][2] <= game_state'.characters[pending[i][1]].level
            /\ \A i, j \in DOMAIN pending : pending[i] = pending[j] => i = j
    ]_vars

\* C28 witness: one choice took lo from level 0 to level 2 and the stories
\* of levels 1 and 2 are pending in this order
C28_Witness ==
  /\ status = "ok"
  /\ Len(game_state.choices_made) = 1
  /\ game_state.characters["lo"] = [affection |-> 45, level |-> 2]
  /\ game_state.pending_relationship_stories = <<(<<"lo", 1>>), (<<"lo", 2>>)>>

\* ------------------------------------------------------------------------
\* Properties of chat_completion
\* ------------------------------------------------------------------------
\* the attempts made so far all failed
AllFailed(log) == \A i \in DOMAIN log : log[i] = "fail"

\* C29: chat_completion asks the provider at most max_retries times; it
\* returns the answer of the first attempt that succeeds and makes no
\* further attempt; after a failure that is not the last allowed attempt it
\* waits and tries again; after max_retries failures in a row it raises the
\* error of the last one; it ends in no other way.
C29_RetriesAtMostMaxRetries ==
  /\ llm.calls <= llm.max_retries
  /\ Len(llm.log) <= llm.max_retries
  /\ llm.pc = "returned" =>
       /\ llm.log[Len(llm.log)] = "ok"
       /\ AllFailed(SubSeq(llm.log, 1, Len(llm.log) - 1))
       /\ llm.result = Len(llm.log)
  /\ llm.pc = "raised" =>
       /\ Len(llm.log) = llm.max_retries
       /\ AllFailed(llm.log)
       /\ llm.error = llm.max_retries
  /\ llm.pc \in {"for", "try", "sleep"} =>
       /\ AllFailed(llm.log)
       /\ Len(llm.waits) = llm.attempt
       /\ Len(llm.log) = IF llm.pc = "sleep" THEN llm.attempt + 1
                         ELSE llm.attempt
       /\ llm.pc = "sleep" => Len(llm.log) < llm.max_retries
       /\ llm.pc = "for" => llm.attempt < llm.max_retries
  /\ llm.pc # "returned_none"

\* C29 witness: with the default of three attempts, two calls failed, the
\* function waited 1 and 2 seconds and the third call raised
C29_Witness ==
  /\ llm.max_retries = 3
  /\ llm.pc = "raised"
  /\ llm.calls = 3
  /\ llm.waits = <<1, 2>>

\* ------------------------------------------------------------------------
\* Termination of playback
\* ------------------------------------------------------------------------
\* the game waits for a click that asks for the next line
WaitsForClick ==
  /\ status = "ok"
  /\ current_scene.kind = "dialogue"
  /\ ~current_scene.in_choice

NoNavigation ==
  \A g \in DOMAIN parsed_story : \A b \in DOMAIN parsed_story[g] :
    \A i \in DOMAIN parsed_story[g][b] :
      \A k \in DOMAIN parsed_story[g][b][i].lines :
        LET ins == parsed_story[g][b][i].lines[k]
        IN  /\ ins.type # "jump"
            /\ ins.type = "choice_option" => ins.target = NoTarget

\* position of the game in the story: group, block, the relationship scene
\* before the main scene, and the instruction
Position ==
  <<game_state.group, game_state.block,
    IF current_scene.scene_name.rel THEN 0 ELSE 1, current_scene.index>>

\* lexicographic order of positions
Before(p, q) ==
  \E k \in 1..4 : p[k] < q[k] /\ \A j \in 1..(k - 1) : p[j] = q[j]

\* without navigation instructions every click and every choice moves the
\* game on in the story or ends it
PlaybackWithoutNavigationGoesOn ==
  [][(NoNavigation /\ current_scene.kind = "dialogue"
        /\ current_scene'.kind = "dialogue")
       => Before(Position, Position')]_vars

\* the click replays the scene up to the line the game is waiting on
ClickChangesNothing ==
  /\ WaitsForClick
  /\ NextLine.gs = game_state
  /\ NextLine.cur = current_scene

====
